---- MODULE Spec2Model ----
(***************************************************************************)
(* Blockza Directory MCP server: the upstream client (BlockzaAPIClient)    *)
(* and the resource, tool and prompt handlers registered on the server.    *)
(*                                                                         *)
(* A handler runs until it awaits an upstream HTTP request, is suspended,   *)
(* and is resumed when the request settles.  The upstream API is outside   *)
(* the program: every settled request draws its outcome (network failure,  *)
(* non-2xx status, unparsable body, or a JSON body) from a bounded set.    *)
(* Spec follows one invocation at a time over every handler and argument;  *)
(* Concurrent follows several invocations in flight together; Transport    *)
(* follows the /mcp endpoint of the HTTP mode and its session registry.    *)
(*                                                                         *)
(* JavaScript values: an object is a record; a property that is undefined  *)
(* is a field missing from the record's DOMAIN; null is the record Null.   *)
(* Instants are counted in days since the Unix epoch.                      *)
(***************************************************************************)
EXTENDS Integers, Sequences, FiniteSets, TLC

VARIABLES pc, call, requests, outs, now, result, engine, frames, bodies,
          transports, sessions, http, reply

\* the HTTP transport of main: the session registry, the transport objects
\* created, the /mcp requests being handled and the last response written
wire == <<transports, sessions, http, reply>>

\* one invocation as the host sees it
handler == <<pc, call, requests, outs, now, result, engine>>

\* what the invocations in flight together hold, and the HTTP transport
aside == <<frames, bodies, wire>>

vars == <<pc, call, requests, outs, now, result, engine, aside>>

---------------------------------------------------------------------------
(* Bounds *)

\* longest listing an upstream body holds
MaxListing == 3

\* the clock readings of an invocation range over FirstDay..FirstDay+MaxTick
MaxTick == 3

\* handler invocations in flight together
MaxInFlight == 2

\* /mcp requests being handled together, and transports created in a run
MaxConnections == 2
MaxTransports == 2

---------------------------------------------------------------------------
(* JavaScript primitives used by the program *)

Null == [null |-> TRUE]

\* a string-valued property or variable holding undefined
undefined == "<undefined>"

Has(obj, f) == f \in DOMAIN obj

\* if (s): a string property is truthy when defined and non-empty
TruthyStr(obj, f) == Has(obj, f) /\ obj[f] # "" /\ obj[f] # undefined

\* if (n): a number property is truthy when defined and non-zero
TruthyNum(obj, f) == Has(obj, f) /\ obj[f] # 0

\* if (b): a boolean property is truthy when defined and true
TruthyBool(obj, f) == Has(obj, f) /\ obj[f]

\* `${obj.f}` inside a template literal
Interp(obj, f) == IF Has(obj, f) THEN obj[f] ELSE "undefined"

Digits == "0123456789"
Upper == "ABCDEFGHIJKLMNOPQRSTUVWXYZ"
Lower == "abcdefghijklmnopqrstuvwxyz"

IndexIn(s, c) == CHOOSE i \in 1..Len(s) : SubSeq(s, i, i) = c

\* UTF-16 code unit of a one-character string (the characters the data uses)
CharCode ==
  [c \in {SubSeq(Digits, i, i) : i \in 1..Len(Digits)} |-> 47 + IndexIn(Digits, c)]
  @@ [c \in {SubSeq(Upper, i, i) : i \in 1..Len(Upper)} |-> 64 + IndexIn(Upper, c)]
  @@ [c \in {SubSeq(Lower, i, i) : i \in 1..Len(Lower)} |-> 96 + IndexIn(Lower, c)]
  @@ (" " :> 32) @@ ("," :> 44) @@ ("-" :> 45) @@ ("." :> 46)

CharAt(s, i) == SubSeq(s, i, i)

\* a < b as Array.prototype.sort() with no comparator orders strings:
\* by UTF-16 code units, a proper prefix first
RECURSIVE StrLessFrom(_, _, _)
StrLessFrom(a, b, i) ==
  IF i > Len(b) THEN FALSE
  ELSE IF i > Len(a) THEN TRUE
  ELSE IF CharCode[CharAt(a, i)] # CharCode[CharAt(b, i)]
       THEN CharCode[CharAt(a, i)] < CharCode[CharAt(b, i)]
  ELSE StrLessFrom(a, b, i + 1)

StrLess(a, b) == StrLessFrom(a, b, 1)

\* String.prototype.toLowerCase on the ASCII range
RECURSIVE toLowerCase(_)
toLowerCase(s) ==
  IF s = "" THEN ""
  ELSE LET c == CharAt(s, 1)
           k == CharCode[c]
       IN (IF k >= 65 /\ k <= 90 THEN CharAt(Lower, k - 64) ELSE c)
            \o toLowerCase(SubSeq(s, 2, Len(s)))

\* String.prototype.includes
includes(s, part) ==
  \E i \in 1..(Len(s) - Len(part) + 1) : SubSeq(s, i, i + Len(part) - 1) = part

\* Array.prototype.slice(0, n) for an integer n: a negative n counts from the end
slice(arr, n) ==
  LET end == IF n < 0 THEN (IF Len(arr) + n < 0 THEN 0 ELSE Len(arr) + n)
             ELSE IF n < Len(arr) THEN n ELSE Len(arr)
  IN SubSeq(arr, 1, end)

\* the object literal {k: obj[keys[k]], ...} as JSON.stringify prints it
Project(obj, keys) == [k \in { j \in DOMAIN keys : Has(obj, keys[j]) } |-> obj[keys[k]]]

---------------------------------------------------------------------------
(* Upstream data: the records the directory and events endpoints serve *)

\* obj.f read as a string: undefined when the property is missing
Get(obj, f) == IF Has(obj, f) THEN obj[f] ELSE undefined

SocialLinks == [facebook |-> "", linkedin |-> "", telegram |-> "", twitter |-> "", youtube |-> ""]

Member(n) == [_id |-> "m" \o n, name |-> "Member " \o n, title |-> "Engineer"]

\* interface Company; likes, teamMembers are left out of some records
Companies ==
  { [_id |-> "c1", name |-> "Acme", slug |-> "acme", category |-> "DeFi",
     shortDescription |-> "Payments", verificationStatus |-> "verified",
     isPromoted |-> TRUE, likes |-> 5, views |-> 10, socialLinks |-> SocialLinks,
     promotionSettings |-> [hasAffiliateProgram |-> TRUE, interestedInBusinessPartnership |-> FALSE],
     teamMembers |-> <<Member("1"), Member("2"), Member("3")>>],
    [_id |-> "c2", name |-> "Acme Labs", slug |-> "acme-labs", category |-> "AI",
     shortDescription |-> "Models", verificationStatus |-> "pending",
     isPromoted |-> FALSE, likes |-> 2, views |-> 3, socialLinks |-> SocialLinks,
     promotionSettings |-> [hasAffiliateProgram |-> FALSE, interestedInBusinessPartnership |-> TRUE],
     teamMembers |-> <<>>],
    [_id |-> "c3", name |-> "Zeta", slug |-> "zeta", category |-> "AI",
     shortDescription |-> "Agents", verificationStatus |-> "verified",
     isPromoted |-> FALSE, views |-> 1, socialLinks |-> SocialLinks,
     promotionSettings |-> [hasAffiliateProgram |-> FALSE, interestedInBusinessPartnership |-> FALSE]],
    [_id |-> "c4", name |-> "Nova", slug |-> "nova", category |-> "",
     shortDescription |-> "", verificationStatus |-> "rejected",
     isPromoted |-> FALSE, likes |-> 0, views |-> 0, socialLinks |-> SocialLinks,
     promotionSettings |-> [hasAffiliateProgram |-> FALSE, interestedInBusinessPartnership |-> FALSE],
     teamMembers |-> <<Member("4")>>] }

EventSocialLinks == [linkedin |-> "", telegram |-> "", twitter |-> "", instagram |-> ""]

\* interface Event
Events ==
  { [_id |-> "e1", title |-> "Token Summit", company |-> "Blockza", description |-> "DeFi builders",
     location |-> "Expo Hall", country |-> "UAE", city |-> "Dubai",
     eventStartDate |-> "2025-06-02", eventEndDate |-> "2025-06-03",
     category |-> "Conference", website |-> "", socialLinks |-> EventSocialLinks],
    [_id |-> "e2", title |-> "AI Night", company |-> "Acme", description |-> "AI agents",
     location |-> "Hub", country |-> "USA", city |-> "Austin",
     eventStartDate |-> "2025-06-01T00:00:00.000Z", eventEndDate |-> "2025-06-01T00:00:00.000Z",
     category |-> "Meetup", website |-> "", socialLinks |-> EventSocialLinks],
    [_id |-> "e3", title |-> "Chain Week", company |-> "Blockza", description |-> "NFT art",
     location |-> "Marina", country |-> "UAE", city |-> "",
     eventStartDate |-> "2025-06-02T00:00:00.000Z", eventEndDate |-> "2025-06-03",
     category |-> "Conference", website |-> "", socialLinks |-> EventSocialLinks],
    [_id |-> "e4", title |-> "Hack Day", company |-> "", description |-> "",
     location |-> "", country |-> "", city |-> "Abu Dhabi",
     eventStartDate |-> "TBA", eventEndDate |-> "",
     category |-> "", website |-> "", socialLinks |-> EventSocialLinks] }

\* the sequences of at most MaxListing distinct records of a pool
Listings(pool) ==
  UNION { { s \in [1..n -> pool] : \A i, j \in 1..n : s[i] = s[j] => i = j } : n \in 0..MaxListing }

\* new Date(text): a time value in days since the epoch, or an Invalid Date (NaN)
DateOf(text) ==
  CASE text = "2025-05-31" -> [valid |-> TRUE, time |-> 20239]
    [] text = "2025-06-01T00:00:00.000Z" -> [valid |-> TRUE, time |-> 20240]
    [] text = "2025-06-02" -> [valid |-> TRUE, time |-> 20241]
    [] text = "2025-06-02T00:00:00.000Z" -> [valid |-> TRUE, time |-> 20241]
    [] text = "2025-06-03" -> [valid |-> TRUE, time |-> 20242]
    [] text = "2025-12-31" -> [valid |-> TRUE, time |-> 20453]
    [] OTHER -> [valid |-> FALSE, time |-> 0]

\* the instants new Date() can read during an invocation
Times == { DateOf("2025-05-31").time + k : k \in 0..MaxTick }

\* a JSON document: an object, an array or null
ObjectBody(props) == [type |-> "object", props |-> props]
ArrayBody(items) == [type |-> "array", items |-> items]
NullBody == [type |-> "null"]

\* how an awaited fetch(url) followed by response.json() can settle
FetchFailures ==
  { [kind |-> "network_error"],
    [kind |-> "http_error", status |-> 500, statusText |-> "Internal Server Error"],
    [kind |-> "bad_json"] }

OkOutcome(body) == [kind |-> "ok", body |-> body]

DirectoryOutcomes ==
  FetchFailures
  \cup { OkOutcome(ObjectBody([success |-> TRUE, data |-> l])) : l \in Listings(Companies) }
  \cup { OkOutcome(ObjectBody([success |-> FALSE])),
         OkOutcome(ObjectBody([success |-> TRUE])),
         OkOutcome(ArrayBody(<<>>)),
         OkOutcome(NullBody) }

EventsOutcomes ==
  FetchFailures
  \cup { OkOutcome(ArrayBody(l)) : l \in Listings(Events) }
  \cup { OkOutcome(ObjectBody([error |-> "maintenance"])), OkOutcome(NullBody) }

NotSettled == [kind |-> "pending"]

\* the i-th settled request of the invocation, or NotSettled
Out(settled, i) == IF i <= Len(settled) THEN settled[i] ELSE NotSettled

---------------------------------------------------------------------------
(* The state of a promise: a handler or client method is suspended on a    *)
(* request (pending), has returned (fulfilled) or has thrown (rejected)    *)

Pending(req) == [state |-> "pending", request |-> req]
Fulfilled(v) == [state |-> "fulfilled", value |-> v]
Rejected(e) == [state |-> "rejected", error |-> e]

\* `${error}` of what fetch / response.json() throws
FetchError(o) ==
  CASE o.kind = "network_error" -> "TypeError: fetch failed"
    [] o.kind = "http_error" -> "Error: HTTP " \o ToString(o.status) \o ": " \o o.statusText
    [] OTHER -> "SyntaxError: Unexpected token < in JSON at position 0"

TypeErrorReading(p) == "TypeError: Cannot read properties of undefined (reading '" \o p \o "')"

---------------------------------------------------------------------------
(* class BlockzaAPIClient *)

\* url.searchParams after the if (params?.x) url.searchParams.set(...) lines
CompaniesQuery(params) ==
  [f \in { g \in {"limit"} : TruthyNum(params, g) } |-> ToString(params[f])]
  @@ [f \in { g \in {"category", "search"} : TruthyStr(params, g) } |-> params[f]]
  @@ [f \in { g \in {"verified"} : Has(params, g) } |-> IF params[f] THEN "true" ELSE "false"]

getCompanies(params, o) ==
  IF o.kind = "pending"
  THEN Pending([endpoint |-> "directory", params |-> params, query |-> CompaniesQuery(params)])
  ELSE IF o.kind = "ok" THEN Fulfilled(o.body)
  ELSE Rejected(FetchError(o))

\* data.success, for data any JSON document but null
Success(data) == data.type = "object" /\ TruthyBool(data.props, "success")

\* data.data is an array
HasData(data) == data.type = "object" /\ Has(data.props, "data")

\* data.data.find(c => c.slug === slug)
findBySlug(list, slug) ==
  IF \E i \in 1..Len(list) : Get(list[i], "slug") = slug
  THEN list[CHOOSE i \in 1..Len(list) :
              /\ Get(list[i], "slug") = slug
              /\ \A j \in 1..(i - 1) : Get(list[j], "slug") # slug]
  ELSE Null

\* a lookup that takes the first result whatever its slug
firstResult(list, slug) == IF Len(list) > 0 THEN list[1] ELSE Null

\* company || data.data[0] || null
exactOrFirst(list, slug) ==
  IF findBySlug(list, slug) # Null THEN findBySlug(list, slug)
  ELSE IF Len(list) > 0 THEN list[1]
  ELSE Null

getCompanyBySlug(slug, o) ==
  LET data == getCompanies([search |-> slug], o)
  IN IF data.state = "pending" THEN data
     ELSE IF data.state = "rejected" THEN Fulfilled(Null)
     ELSE IF data.value.type = "null" THEN Fulfilled(Null)
     ELSE IF ~Success(data.value) THEN Fulfilled(Null)
     ELSE IF ~HasData(data.value) THEN Fulfilled(Null)
     ELSE IF Len(data.value.props.data) > 0
          THEN Fulfilled(exactOrFirst(data.value.props.data, slug))
     ELSE Fulfilled(Null)

\* fulfilled with undefined (data.success is true and data.data is missing)
FulfilledUndefined == [state |-> "fulfilled"]
IsUndefined(promise) == ~Has(promise, "value")

getCompaniesByCategory(category, o) ==
  LET data == getCompanies([category |-> category], o)
  IN IF data.state = "pending" THEN data
     ELSE IF data.state = "rejected" THEN Fulfilled(<<>>)
     ELSE IF data.value.type = "null" THEN Fulfilled(<<>>)
     ELSE IF ~Success(data.value) THEN Fulfilled(<<>>)
     ELSE IF HasData(data.value) THEN Fulfilled(data.value.props.data)
     ELSE FulfilledUndefined

EventsQuery(params) ==
  [f \in { g \in {"limit"} : TruthyNum(params, g) } |-> ToString(params[f])]
  @@ [f \in { g \in {"category", "search", "country", "city"} :
                TruthyStr(params, g) } |-> params[f]]
  @@ [f \in { g \in {"upcoming"} : Has(params, g) } |-> IF params[f] THEN "true" ELSE "false"]

getEvents(params, o) ==
  IF o.kind = "pending"
  THEN Pending([endpoint |-> "events", params |-> params, query |-> EventsQuery(params)])
  ELSE IF o.kind = "ok"
       THEN Fulfilled(IF o.body.type = "array" THEN o.body.items ELSE <<>>)
  ELSE Rejected(FetchError(o))

\* a lookup that takes the first event whatever its _id
firstEvent(events, id) == IF Len(events) > 0 THEN events[1] ELSE Null

\* a lookup that falls back to the first event, as the company lookup does
idOrFirst(events, id) ==
  IF \E i \in 1..Len(events) : Get(events[i], "_id") = id
  THEN events[CHOOSE i \in 1..Len(events) :
                /\ Get(events[i], "_id") = id
                /\ \A j \in 1..(i - 1) : Get(events[j], "_id") # id]
  ELSE IF Len(events) > 0 THEN events[1] ELSE Null

\* events.find(event => event._id === id) || null
findById(events, id) ==
  IF \E i \in 1..Len(events) : Get(events[i], "_id") = id
  THEN events[CHOOSE i \in 1..Len(events) :
                /\ Get(events[i], "_id") = id
                /\ \A j \in 1..(i - 1) : Get(events[j], "_id") # id]
  ELSE Null

getEventById(id, o) ==
  LET events == getEvents(<<>>, o)
  IN IF events.state = "pending" THEN events
     ELSE IF events.state = "rejected" THEN Fulfilled(Null)
     ELSE Fulfilled(findById(events.value, id))

\* a category query that lets the failure of the request through
getEventsByCategoryStrict(category, o) == getEvents([category |-> category], o)

getEventsByCategory(category, o) ==
  LET events == getEvents([category |-> category], o)
  IN IF events.state = "rejected" THEN Fulfilled(<<>>) ELSE events

\* a filter that also keeps an event starting at t
startsAtOrAfter(event, t) ==
  LET d == DateOf(Get(event, "eventStartDate")) IN d.valid /\ d.time >= t

\* new Date(event.eventStartDate) > now
startsAfter(event, t) ==
  LET d == DateOf(Get(event, "eventStartDate")) IN d.valid /\ d.time > t

getUpcomingEvents(o, t) ==
  LET events == getEvents(<<>>, o)
  IN IF events.state = "pending" THEN events
     ELSE IF events.state = "rejected" THEN Fulfilled(<<>>)
     ELSE Fulfilled(SelectSeq(events.value, LAMBDA e : startsAfter(e, t)))

getEventsByLocation(country, city, o) ==
  LET events == getEvents([country |-> country, city |-> city], o)
  IN IF events.state = "rejected" THEN Fulfilled(<<>>) ELSE events

---------------------------------------------------------------------------
(* What a tool handler returns: {content: [{type: "text", text}], isError?} *)
(* The text is a template literal: literal parts and JSON.stringify parts.  *)

Lit(s) == [lit |-> s]
Json(v) == [json |-> v]

TextResult(parts) == [content |-> <<[type |-> "text", text |-> parts]>>]
\* an error message returned without the error flag
unflaggedResult(message) == TextResult(<<Lit(message)>>)

ErrorResult(message) ==
  [content |-> <<[type |-> "text", text |-> <<Lit(message)>>]>>, isError |-> TRUE]

\* a result that flags an empty listing as an error
emptyIsError(tag, value, summary) ==
  IF tag # "TEAM" /\ Len(value) = 0
  THEN [content |-> <<[type |-> "text", text |-> <<Lit(summary)>>]>>, isError |-> TRUE]
  ELSE TextResult(<<Lit(tag \o "_DATA_START\n"), Json(value),
                    Lit("\n" \o tag \o "_DATA_END\n\n" \o summary)>>)

\* COMPANIES_DATA_START ... COMPANIES_DATA_END followed by the summary sentence
DataResult(tag, value, summary) ==
  TextResult(<<Lit(tag \o "_DATA_START\n"), Json(value),
               Lit("\n" \o tag \o "_DATA_END\n\n" \o summary)>>)

\* a map that keeps only the first element
mapFirst(arr, keys) ==
  [i \in 1..(IF Len(arr) > 0 THEN 1 ELSE 0) |-> Project(arr[i], keys)]

\* arr.map(x => ({...}))
MapProject(arr, keys) == [i \in 1..Len(arr) |-> Project(arr[i], keys)]

CompanySummaryKeys ==
  [_id |-> "_id", name |-> "name", slug |-> "slug", category |-> "category",
   shortDescription |-> "shortDescription", logo |-> "logo", banner |-> "banner",
   founderName |-> "founderName", verificationStatus |-> "verificationStatus",
   url |-> "url", likes |-> "likes", views |-> "views"]

---------------------------------------------------------------------------
(* Company tools *)

search_companies(args, settled) ==
  LET params == [f \in { g \in {"search", "category", "limit"} : Has(args, g) } |-> args[f]]
                @@ [f \in { g \in {"verified"} : Has(args, "verified_only") } |-> args.verified_only]
      data == getCompanies(params, Out(settled, 1))
  IN IF data.state = "pending" THEN data
     ELSE IF data.state = "rejected"
          THEN Fulfilled(ErrorResult("Error searching companies: " \o data.error))
     ELSE IF data.value.type = "null"
          THEN Fulfilled(ErrorResult("Error searching companies: " \o TypeErrorReading("success")))
     ELSE IF ~Success(data.value)
          THEN Fulfilled(ErrorResult("Failed to search companies: API returned unsuccessful response"))
     ELSE LET companies == IF HasData(data.value) THEN data.value.props.data ELSE <<>>
              results == MapProject(companies, CompanySummaryKeys)
          IN Fulfilled(DataResult("COMPANIES", results,
                 "Found " \o ToString(Len(results)) \o " companies matching your search criteria."))

\* a spread that adds the team list whether it was asked for or not
teamKeyAlways(include_team, company) == Project(company, [team_members |-> "teamMembers"])

\* ...(include_team && { team_members: company.teamMembers })
teamKey(include_team, company) ==
  IF include_team THEN Project(company, [team_members |-> "teamMembers"]) ELSE <<>>

get_company_details(args, settled) ==
  LET include_team == IF Has(args, "include_team") THEN args.include_team ELSE FALSE
      company == getCompanyBySlug(args.identifier, Out(settled, 1))
  IN IF company.state = "pending" THEN company
     ELSE IF company.value = Null
          THEN Fulfilled(ErrorResult("Company not found: " \o args.identifier))
     ELSE LET c == company.value
              details ==
                [basic_info |-> Project(c, [name |-> "name", slug |-> "slug", category |-> "category",
                                  shortDescription |-> "shortDescription", detail |-> "detail",
                                  logo |-> "logo", banner |-> "banner", url |-> "url",
                                  verificationStatus |-> "verificationStatus"]),
                 founder |-> Project(c, [name |-> "founderName", details |-> "founderDetails",
                                  email |-> "founderEmail", image |-> "founderImage",
                                  followers |-> "founderFollowers",
                                  responseRate |-> "founderResponseRate"]),
                 stats |-> Project(c, [likes |-> "likes", views |-> "views",
                                  followerPrice |-> "followerPrice"])]
                @@ Project(c, [social_links |-> "socialLinks",
                               promotion_settings |-> "promotionSettings"])
                @@ teamKey(include_team, c)
          IN Fulfilled(TextResult(<<Json(details)>>))

\* limit ? list.slice(0, limit) : list
truncate(list, args) ==
  IF TruthyNum(args, "limit") THEN slice(list, args.limit) ELSE list

get_companies_by_category(args, settled) ==
  LET companies == getCompaniesByCategory(args.category, Out(settled, 1))
  IN IF companies.state = "pending" THEN companies
     ELSE IF IsUndefined(companies)
          THEN Fulfilled(ErrorResult("Error getting companies by category: "
                   \o TypeErrorReading(IF TruthyNum(args, "limit") THEN "slice" ELSE "map")))
     ELSE LET results == truncate(companies.value, args)
              summary == MapProject(results, CompanySummaryKeys)
          IN Fulfilled(DataResult("COMPANIES", summary,
                 "Found " \o ToString(Len(results)) \o " companies in category \""
                   \o args.category \o "\"."))

get_team_members(args, settled) ==
  LET company == getCompanyBySlug(args.company_slug, Out(settled, 1))
  IN IF company.state = "pending" THEN company
     ELSE IF company.value = Null
          THEN Fulfilled(ErrorResult("Company not found: " \o args.company_slug))
     ELSE IF ~Has(company.value, "teamMembers") \/ Len(company.value.teamMembers) = 0
          THEN Fulfilled(TextResult(<<Lit("No team members found for " \o Interp(company.value, "name"))>>))
     ELSE LET teamInfo ==
                [company |-> company.value.name,
                 team_members |-> MapProject(company.value.teamMembers,
                     [name |-> "name", title |-> "title", email |-> "email",
                      linkedin |-> "linkedinUrl", image |-> "image", status |-> "status",
                      followers |-> "followers", responseRate |-> "responseRate",
                      price |-> "price", bookingMethods |-> "bookingMethods"])]
          IN Fulfilled(DataResult("TEAM", teamInfo,
                 "Found " \o ToString(Len(teamInfo.team_members)) \o " team members for "
                   \o teamInfo.company \o "."))

\* new Set(), then set.add(x[f]) for each x of list with a truthy x[f]:
\* the distinct truthy values in the order of their first occurrence
RECURSIVE collect(_, _)
collect(list, f) ==
  IF list = <<>> THEN <<>>
  ELSE LET before == collect(SubSeq(list, 1, Len(list) - 1), f)
           x == list[Len(list)]
       IN IF TruthyStr(x, f) /\ \A i \in 1..Len(before) : before[i] # x[f]
          THEN Append(before, x[f]) ELSE before

\* the array left in the order it has
unsorted(arr) == arr

\* Array.prototype.sort() with no comparator, on strings
RECURSIVE sort(_)
sort(arr) ==
  IF arr = <<>> THEN <<>>
  ELSE LET i == CHOOSE k \in 1..Len(arr) :
                  \A j \in 1..Len(arr) : ~StrLess(arr[j], arr[k]) /\ (arr[j] = arr[k] => k <= j)
       IN <<arr[i]>> \o sort(SubSeq(arr, 1, i - 1) \o SubSeq(arr, i + 1, Len(arr)))

\* companies.reduce((sum, c) => sum + (c[f] || 0), 0)
RECURSIVE total(_, _)
total(list, f) ==
  IF list = <<>> THEN 0
  ELSE total(SubSeq(list, 1, Len(list) - 1), f)
         + (IF TruthyNum(list[Len(list)], f) THEN list[Len(list)][f] ELSE 0)

\* the quotient cut off after the second decimal
truncatedHundredths(sum, n) == (100 * sum) \div n

\* (sum / count).toFixed(2) for sum >= 0, count > 0: the quotient rounded to the
\* nearest hundredth, printed with two decimals
hundredths(sum, n) == (2 * 100 * sum + n) \div (2 * n)

toFixed(sum, n) ==
  LET h == hundredths(sum, n)
  IN ToString(h \div 100) \o "." \o ToString((h % 100) \div 10) \o ToString(h % 10)

\* a JSON number and a JSON string
Num(n) == [number |-> n]
Str(s) == [string |-> s]

\* companies.length > 0 ? (sum / companies.length).toFixed(2) : 0
average(sum, n) == IF n > 0 THEN Str(toFixed(sum, n)) ELSE Num(0)

get_directory_stats(args, settled) ==
  LET data == getCompanies(<<>>, Out(settled, 1))
  IN IF data.state = "pending" THEN data
     ELSE IF data.state = "rejected"
          THEN Fulfilled(ErrorResult("Error getting directory statistics: " \o data.error))
     ELSE IF data.value.type = "null"
          THEN Fulfilled(ErrorResult("Error getting directory statistics: " \o TypeErrorReading("success")))
     ELSE IF ~Success(data.value)
          THEN Fulfilled(ErrorResult("Failed to get directory statistics"))
     ELSE LET companies == IF HasData(data.value) THEN data.value.props.data ELSE <<>>
              categories == collect(companies, "category")
              totalLikes == total(companies, "likes")
              totalViews == total(companies, "views")
              stats ==
                [total_companies |-> Len(companies),
                 verified_companies |->
                   Len(SelectSeq(companies, LAMBDA c : Get(c, "verificationStatus") = "verified")),
                 promoted_companies |->
                   Len(SelectSeq(companies, LAMBDA c : TruthyBool(c, "isPromoted"))),
                 companies_with_affiliate_programs |->
                   Len(SelectSeq(companies, LAMBDA c :
                         Has(c, "promotionSettings")
                         /\ TruthyBool(c.promotionSettings, "hasAffiliateProgram"))),
                 total_categories |-> Len(categories),
                 categories |-> sort(categories),
                 total_likes |-> totalLikes,
                 total_views |-> totalViews,
                 average_likes_per_company |-> average(totalLikes, Len(companies)),
                 average_views_per_company |-> average(totalViews, Len(companies))]
          IN Fulfilled(TextResult(<<Json(stats)>>))

---------------------------------------------------------------------------
(* Event tools *)

\* events.map(event => ({..., location: `${event.city}, ${event.country}`, ...}))
EventSummaries(events, keys) ==
  [i \in 1..Len(events) |->
     Project(events[i], keys)
     @@ [location |-> Interp(events[i], "city") \o ", " \o Interp(events[i], "country")]]

EventSummaryKeys ==
  [id |-> "_id", title |-> "title", company |-> "company", category |-> "category",
   eventStartDate |-> "eventStartDate", eventEndDate |-> "eventEndDate", website |-> "website"]

search_events(args, settled, t) ==
  LET params == [f \in { g \in {"search", "category", "country", "city", "limit"} : Has(args, g) }
                   |-> args[f]]
                @@ [f \in { g \in {"upcoming"} : Has(args, "upcoming_only") } |-> args.upcoming_only]
      events == getEvents(params, Out(settled, 1))
  IN IF events.state = "pending" THEN events
     ELSE IF events.state = "rejected"
          THEN Fulfilled(ErrorResult("Error searching events: " \o events.error))
     ELSE LET filteredEvents ==
                IF TruthyBool(args, "upcoming_only")
                THEN SelectSeq(events.value, LAMBDA e : startsAfter(e, t))
                ELSE events.value
              results == EventSummaries(filteredEvents,
                           EventSummaryKeys @@ [featuredImage |-> "featuredImage"])
          IN Fulfilled(DataResult("EVENTS", results,
                 "Found " \o ToString(Len(results)) \o " events matching your search criteria."))

get_event_details(args, settled) ==
  LET event == getEventById(args.event_id, Out(settled, 1))
  IN IF event.state = "pending" THEN event
     ELSE IF event.value = Null
          THEN Fulfilled(ErrorResult("Event not found: " \o args.event_id))
     ELSE LET e == event.value
              details ==
                [basic_info |-> Project(e, [id |-> "_id", title |-> "title", company |-> "company",
                                  category |-> "category", description |-> "description"]),
                 location |-> Project(e, [venue |-> "location", city |-> "city",
                                  country |-> "country"]),
                 dates |-> Project(e, [start |-> "eventStartDate", end |-> "eventEndDate"]),
                 links |-> Project(e, [website |-> "website", featuredImage |-> "featuredImage"]),
                 metadata |-> Project(e, [createdAt |-> "createdAt", updatedAt |-> "updatedAt"])]
                @@ Project(e, [social_links |-> "socialLinks"])
          IN Fulfilled(TextResult(<<Json(details)>>))

get_events_by_category(args, settled) ==
  LET events == getEventsByCategory(args.category, Out(settled, 1))
  IN IF events.state = "pending" THEN events
     ELSE IF events.state = "rejected"
          THEN Fulfilled(ErrorResult("Error getting events by category: " \o events.error))
     ELSE LET results == truncate(events.value, args)
              summary == EventSummaries(results, [id |-> "_id", title |-> "title",
                           company |-> "company", eventStartDate |-> "eventStartDate",
                           eventEndDate |-> "eventEndDate", website |-> "website"])
          IN Fulfilled(DataResult("EVENTS", summary,
                 "Found " \o ToString(Len(results)) \o " events in category \""
                   \o args.category \o "\"."))

get_upcoming_events(args, settled, t) ==
  LET events == getUpcomingEvents(Out(settled, 1), t)
  IN IF events.state = "pending" THEN events
     ELSE LET results == truncate(events.value, args)
              summary == EventSummaries(results, EventSummaryKeys)
          IN Fulfilled(DataResult("EVENTS", summary,
                 "Found " \o ToString(Len(results)) \o " upcoming events."))

\* a guard that takes an empty string for a given location
neitherGiven(args) == ~Has(args, "country") /\ ~Has(args, "city")

\* !country && !city
noLocation(args) == ~TruthyStr(args, "country") /\ ~TruthyStr(args, "city")

get_events_by_location(args, settled) ==
  IF noLocation(args)
  THEN Fulfilled(ErrorResult("Please provide either a country or city parameter"))
  ELSE LET events == getEventsByLocation(Get(args, "country"), Get(args, "city"), Out(settled, 1))
       IN IF events.state = "pending" THEN events
          ELSE LET results == truncate(events.value, args)
                   summary == EventSummaries(results, EventSummaryKeys)
                   location == IF TruthyStr(args, "city")
                               THEN args.city \o ", " \o Interp(args, "country")
                               ELSE args.country
               IN Fulfilled(DataResult("EVENTS", summary,
                      "Found " \o ToString(Len(results)) \o " events in " \o location \o "."))

get_events_stats(args, settled, t) ==
  LET events == getEvents(<<>>, Out(settled, 1))
  IN IF events.state = "pending" THEN events
     ELSE IF events.state = "rejected"
          THEN Fulfilled(ErrorResult("Error getting events statistics: " \o events.error))
     ELSE LET upcomingEvents == getUpcomingEvents(Out(settled, 2), t)
          IN IF upcomingEvents.state = "pending" THEN upcomingEvents
             ELSE LET categories == collect(events.value, "category")
                      countries == collect(events.value, "country")
                      cities == collect(events.value, "city")
                      companies == collect(events.value, "company")
                      stats ==
                        [total_events |-> Len(events.value),
                         upcoming_events |-> Len(upcomingEvents.value),
                         past_events |-> Len(events.value) - Len(upcomingEvents.value),
                         total_categories |-> Len(categories),
                         categories |-> sort(categories),
                         total_countries |-> Len(countries),
                         countries |-> sort(countries),
                         total_cities |-> Len(cities),
                         cities |-> sort(cities),
                         total_companies |-> Len(companies),
                         companies |-> sort(companies)]
                  IN Fulfilled(TextResult(<<Json(stats)>>))

---------------------------------------------------------------------------
(* Prompts: a handler returns {messages: [{role: "user", content: {type: "text", text}}]} *)

PromptResult(parts) ==
  [messages |-> <<[role |-> "user", content |-> [type |-> "text", text |-> parts]]>>]

\* a JavaScript number that may be NaN
Number(n) == [nan |-> FALSE, n |-> n]
NaN == [nan |-> TRUE, n |-> 0]

IsDigit(c) == c \in {SubSeq(Digits, i, i) : i \in 1..Len(Digits)}

\* the value of the longest run of decimal digits at the start of s
RECURSIVE digitsValue(_, _)
digitsValue(s, acc) ==
  IF s = "" \/ ~IsDigit(CharAt(s, 1)) THEN acc
  ELSE digitsValue(SubSeq(s, 2, Len(s)), 10 * acc + (CharCode[CharAt(s, 1)] - 48))

\* String.prototype.trim, on spaces
RECURSIVE trim(_)
trim(s) ==
  IF s = "" THEN ""
  ELSE IF CharAt(s, 1) = " " THEN trim(SubSeq(s, 2, Len(s)))
  ELSE IF CharAt(s, Len(s)) = " " THEN trim(SubSeq(s, 1, Len(s) - 1))
  ELSE s

\* parseInt(text, 10): leading blanks, an optional sign, then digits; NaN without a digit
parseInt(text) ==
  LET s == trim(text)
      signed == s # "" /\ CharAt(s, 1) = "-"
      body == IF s # "" /\ CharAt(s, 1) \in {"-", "+"} THEN SubSeq(s, 2, Len(s)) ELSE s
  IN IF body = "" \/ ~IsDigit(CharAt(body, 1)) THEN NaN
     ELSE Number(IF signed THEN 0 - digitsValue(body, 0) ELSE digitsValue(body, 0))

\* limit ? parseInt(limit, 10) : 5, with limit = "5" when the argument is undefined
numLimit(args) ==
  LET limit == IF Has(args, "limit") THEN args.limit ELSE "5"
  IN IF limit # "" THEN parseInt(limit) ELSE Number(5)

\* arr.slice(0, n) for a number n: NaN is taken as 0
sliceTo(arr, n) == IF n.nan THEN <<>> ELSE slice(arr, n.n)

\* (b.views + b.likes) - (a.views + a.likes) <= 0, NaN (a missing counter) taken as 0:
\* sort leaves a before b
engagementKeeps(a, b) ==
  IF Has(a, "views") /\ Has(a, "likes") /\ Has(b, "views") /\ Has(b, "likes")
  THEN (b.views + b.likes) - (a.views + a.likes) <= 0
  ELSE TRUE

\* new Date(a.eventStartDate).getTime() - new Date(b.eventStartDate).getTime() <= 0,
\* NaN (an Invalid Date) taken as 0
startKeeps(a, b) ==
  LET da == DateOf(Get(a, "eventStartDate"))
      db == DateOf(Get(b, "eventStartDate"))
  IN IF da.valid /\ db.valid THEN da.time - db.time <= 0 ELSE TRUE

\* Array.prototype.sort with a comparator is an insertion sort on arrays this
\* short. Where it puts x into the sorted run is fixed by the language only when
\* the comparator is consistent; a comparator that yields NaN is not, and the
\* place then depends on how the engine searches the run. keeps[i] tells whether
\* the comparator leaves run[i] before x.

\* an engine that scans the run from its end and stops at the first element kept
scanPlace(keeps) ==
  IF \E j \in 1..Len(keeps) : keeps[j]
  THEN 1 + CHOOSE j \in 1..Len(keeps) : keeps[j] /\ \A i \in (j + 1)..Len(keeps) : ~keeps[i]
  ELSE 1

\* an engine that bisects the run between left and right
RECURSIVE bisectPlace(_, _, _)
bisectPlace(keeps, left, right) ==
  IF left >= right THEN left + 1
  ELSE LET mid == left + ((right - left) \div 2)
       IN IF keeps[mid + 1] THEN bisectPlace(keeps, mid + 1, right)
          ELSE bisectPlace(keeps, left, mid)

place(keeps) ==
  IF engine = "scanning" THEN scanPlace(keeps) ELSE bisectPlace(keeps, 0, Len(keeps))

\* x put into the run at index k
insertAt(run, x, k) == SubSeq(run, 1, k - 1) \o <<x>> \o SubSeq(run, k, Len(run))

insertByEngagement(run, x) ==
  insertAt(run, x, place([i \in 1..Len(run) |-> engagementKeeps(run[i], x)]))

\* companies.sort((a, b) => (b.views + b.likes) - (a.views + a.likes))
RECURSIVE sortByEngagement(_)
sortByEngagement(arr) ==
  IF arr = <<>> THEN <<>>
  ELSE insertByEngagement(sortByEngagement(SubSeq(arr, 1, Len(arr) - 1)), arr[Len(arr)])

insertByStart(run, x) ==
  insertAt(run, x, place([i \in 1..Len(run) |-> startKeeps(run[i], x)]))

\* events.sort((a, b) => new Date(a.eventStartDate).getTime() - new Date(b.eventStartDate).getTime())
RECURSIVE sortByStart(_)
sortByStart(arr) ==
  IF arr = <<>> THEN <<>>
  ELSE insertByStart(sortByStart(SubSeq(arr, 1, Len(arr) - 1)), arr[Len(arr)])

analyze_company(args, settled) ==
  IF ~TruthyStr(args, "company_slug")
  THEN Fulfilled(PromptResult(<<Lit("Please provide a company slug to analyze.")>>))
  ELSE LET company == getCompanyBySlug(args.company_slug, Out(settled, 1))
       IN IF company.state = "pending" THEN company
          ELSE IF company.value = Null
               THEN Fulfilled(PromptResult(<<Lit(
                      "Please provide an analysis template for when a company \""
                      \o args.company_slug \o "\" is not found in the directory.")>>))
          ELSE IF ~Has(company.value, "socialLinks") THEN Rejected(TypeErrorReading("twitter"))
          ELSE IF ~Has(company.value, "promotionSettings")
               THEN Rejected(TypeErrorReading("hasAffiliateProgram"))
          ELSE Fulfilled(PromptResult(
                 <<Lit("Please analyze the following company from the Blockza directory:\n\nCompany: "
                       \o Interp(company.value, "name") \o "\nCategory: "
                       \o Interp(company.value, "category")),
                   Json(company.value),
                   Lit("Please provide a comprehensive analysis covering:")>>))

\* topCompanies.map(company => ({...})) embedded in the comparison template
companiesTemplate(category, topCompanies) ==
  IF \E i \in 1..Len(topCompanies) : ~Has(topCompanies[i], "promotionSettings")
  THEN Rejected(TypeErrorReading("hasAffiliateProgram"))
  ELSE LET companyData ==
             [i \in 1..Len(topCompanies) |->
                Project(topCompanies[i],
                  [name |-> "name", description |-> "shortDescription",
                   founder |-> "founderName", verification |-> "verificationStatus",
                   url |-> "url"])
                @@ [engagement |-> Project(topCompanies[i], [likes |-> "likes", views |-> "views"]),
                    teamSize |-> IF Has(topCompanies[i], "teamMembers")
                                 THEN Len(topCompanies[i].teamMembers) ELSE 0]
                @@ Project(topCompanies[i].promotionSettings,
                     [hasAffiliateProgram |-> "hasAffiliateProgram"])]
       IN Fulfilled(PromptResult(
            <<Lit("Please compare the following " \o ToString(Len(topCompanies))
                  \o " companies in the \"" \o category \o "\" category:\n\n"),
              Json(companyData),
              Lit("\n\nPlease provide a detailed comparison covering:")>>))

\* a comparison that embeds whatever it is given, an empty selection included
companiesTemplateAlways(category, topCompanies) == companiesTemplate(category, topCompanies)

\* if (topCompanies.length === 0) the guidance message, else the comparison template
companiesComparison(category, topCompanies) ==
  IF Len(topCompanies) = 0
  THEN Fulfilled(PromptResult(<<Lit("No companies found in category \"" \o category
         \o "\". Please suggest how to find companies in this category or recommend similar categories.")>>))
  ELSE companiesTemplate(category, topCompanies)

compare_companies(args, settled) ==
  IF ~TruthyStr(args, "category")
  THEN Fulfilled(PromptResult(<<Lit("Please provide a category to compare companies within.")>>))
  ELSE LET companies == getCompaniesByCategory(args.category, Out(settled, 1))
       IN IF companies.state = "pending" THEN companies
          ELSE IF IsUndefined(companies) THEN Rejected(TypeErrorReading("sort"))
          ELSE companiesComparison(args.category,
                 sliceTo(sortByEngagement(companies.value), numLimit(args)))

analyze_event(args, settled, t) ==
  IF ~TruthyStr(args, "event_id")
  THEN Fulfilled(PromptResult(<<Lit("Please provide an event ID to analyze.")>>))
  ELSE LET event == getEventById(args.event_id, Out(settled, 1))
       IN IF event.state = "pending" THEN event
          ELSE IF event.value = Null
               THEN Fulfilled(PromptResult(<<Lit(
                      "Please provide an analysis template for when an event \""
                      \o args.event_id \o "\" is not found in the directory.")>>))
          ELSE IF ~Has(event.value, "socialLinks") THEN Rejected(TypeErrorReading("twitter"))
          ELSE LET startDate == DateOf(Get(event.value, "eventStartDate"))
                   endDate == DateOf(Get(event.value, "eventEndDate"))
                   isUpcoming == startDate.valid /\ startDate.time > t
                   isOngoing == /\ startDate.valid /\ startDate.time <= t
                                /\ endDate.valid /\ endDate.time >= t
               IN Fulfilled(PromptResult(
                    <<Lit("Please analyze the following event from the Blockza events directory:\n\nEvent: "
                          \o Interp(event.value, "title") \o "\nStatus: "
                          \o (IF isUpcoming THEN "Upcoming" ELSE IF isOngoing THEN "Ongoing" ELSE "Past")),
                      Json(event.value),
                      Lit("Please provide a comprehensive analysis covering:")>>))

\* event.country.toLowerCase().includes(location.toLowerCase()) ||
\* event.city.toLowerCase().includes(location.toLowerCase())
inLocation(event, location) ==
  \/ includes(toLowerCase(event.country), toLowerCase(location))
  \/ includes(toLowerCase(event.city), toLowerCase(location))

\* if (topEvents.length === 0) the guidance message, else the comparison template
eventsComparison(filterType, topEvents) ==
  IF Len(topEvents) = 0
  THEN Fulfilled(PromptResult(<<Lit("No events found for \"" \o filterType
         \o "\". Please suggest how to find events in this category/location or recommend similar options.")>>))
  ELSE LET eventData ==
             [i \in 1..Len(topEvents) |->
                Project(topEvents[i],
                  [id |-> "_id", title |-> "title", organizer |-> "company",
                   category |-> "category", venue |-> "location",
                   website |-> "website", socialLinks |-> "socialLinks"])
                @@ [location |-> Interp(topEvents[i], "city") \o ", "
                                   \o Interp(topEvents[i], "country"),
                    dates |-> Project(topEvents[i],
                                [start |-> "eventStartDate", end |-> "eventEndDate"])]]
       IN Fulfilled(PromptResult(
            <<Lit("Please compare the following " \o ToString(Len(topEvents))
                  \o " events for \"" \o filterType \o "\":\n\n"),
              Json(eventData),
              Lit("\n\nPlease provide a detailed comparison covering:")>>))

\* allEvents.filter(event => country or city includes location), after await getEvents()
eventsAt(location, o) ==
  LET allEvents == getEvents(<<>>, o)
  IN IF allEvents.state # "fulfilled" THEN allEvents
     ELSE IF \E i \in 1..Len(allEvents.value) :
               \/ ~Has(allEvents.value[i], "country")
               \/ /\ ~includes(toLowerCase(allEvents.value[i].country), toLowerCase(location))
                  /\ ~Has(allEvents.value[i], "city")
          THEN Rejected(TypeErrorReading("toLowerCase"))
     ELSE Fulfilled(SelectSeq(allEvents.value, LAMBDA e : inLocation(e, location)))

compare_events(args, settled) ==
  IF ~TruthyStr(args, "category") /\ ~TruthyStr(args, "location")
  THEN Fulfilled(PromptResult(
         <<Lit("Please provide either a category or location to compare events within.")>>))
  ELSE LET events == IF TruthyStr(args, "category")
                     THEN getEventsByCategory(args.category, Out(settled, 1))
                     ELSE eventsAt(args.location, Out(settled, 1))
       IN IF events.state # "fulfilled" THEN events
          ELSE eventsComparison(IF TruthyStr(args, "category") THEN args.category ELSE args.location,
                 sliceTo(sortByStart(events.value), numLimit(args)))

\* String.prototype.split(','): the pieces between the commas
RECURSIVE split(_, _)
split(s, piece) ==
  IF s = "" THEN <<piece>>
  ELSE IF CharAt(s, 1) = "," THEN <<piece>> \o split(SubSeq(s, 2, Len(s)), "")
  ELSE split(SubSeq(s, 2, Len(s)), piece \o CharAt(s, 1))

\* interests.toLowerCase().split(',').map(term => term.trim())
interestTerms(interests) ==
  LET pieces == split(toLowerCase(interests), "") IN [i \in 1..Len(pieces) |-> trim(pieces[i])]

\* interestTerms.some(term => title, description or category includes term)
matchesInterest(event, terms) ==
  \E i \in 1..Len(terms) :
    \/ includes(toLowerCase(event.title), terms[i])
    \/ includes(toLowerCase(event.description), terms[i])
    \/ includes(toLowerCase(event.category), terms[i])

\* the timeframe filter: 'next 3 months' keeps now <= start <= now + 90 days,
\* '2025' keeps start <= 2025-12-31, any other text keeps every event
inTimeframe(event, timeframe, t) ==
  LET eventDate == DateOf(Get(event, "eventStartDate"))
  IN IF includes(toLowerCase(timeframe), "next 3 months")
     THEN eventDate.valid /\ eventDate.time >= t /\ eventDate.time <= t + 90
     ELSE IF includes(toLowerCase(timeframe), "2025")
          THEN eventDate.valid /\ eventDate.time <= DateOf("2025-12-31").time
     ELSE TRUE

\* criteria.join(', ')
RECURSIVE join(_)
join(parts) ==
  IF parts = <<>> THEN ""
  ELSE IF Len(parts) = 1 THEN parts[1]
  ELSE parts[1] \o ", " \o join(SubSeq(parts, 2, Len(parts)))

event_recommendations(args, settled, t) ==
  LET fetched == getEvents(<<>>, Out(settled, 1))
      failed(error) ==
        Fulfilled(PromptResult(<<Lit("Error generating event recommendations: " \o error
          \o ". Please provide guidance on how to help users find relevant events.")>>))
  IN IF fetched.state = "pending" THEN fetched
     ELSE IF fetched.state = "rejected" THEN failed(fetched.error)
     ELSE IF \E i \in 1..Len(fetched.value) :
               \/ TruthyStr(args, "interests")
                  /\ \E f \in {"title", "description", "category"} : ~Has(fetched.value[i], f)
               \/ TruthyStr(args, "location")
                  /\ \E f \in {"country", "city"} : ~Has(fetched.value[i], f)
               \/ TruthyStr(args, "event_type") /\ ~Has(fetched.value[i], "category")
               \/ ~Has(fetched.value[i], "description")
          THEN failed(TypeErrorReading("toLowerCase"))
     ELSE LET byInterest ==
                IF TruthyStr(args, "interests")
                THEN SelectSeq(fetched.value,
                       LAMBDA e : matchesInterest(e, interestTerms(args.interests)))
                ELSE fetched.value
              byLocation ==
                IF TruthyStr(args, "location")
                THEN SelectSeq(byInterest, LAMBDA e : inLocation(e, args.location))
                ELSE byInterest
              byType ==
                IF TruthyStr(args, "event_type")
                THEN SelectSeq(byLocation, LAMBDA e :
                       includes(toLowerCase(e.category), toLowerCase(args.event_type)))
                ELSE byLocation
              byTime ==
                IF TruthyStr(args, "timeframe")
                THEN SelectSeq(byType, LAMBDA e : inTimeframe(e, args.timeframe, t))
                ELSE byType
              recommendations == slice(sortByStart(byTime), 10)
              recommendationData ==
                [i \in 1..Len(recommendations) |->
                   Project(recommendations[i],
                     [id |-> "_id", title |-> "title", organizer |-> "company",
                      category |-> "category", dates |-> "eventStartDate", website |-> "website"])
                   @@ [location |-> Interp(recommendations[i], "city") \o ", "
                                      \o Interp(recommendations[i], "country"),
                       description |->
                         SubSeq(recommendations[i].description, 1,
                                IF Len(recommendations[i].description) < 200
                                THEN Len(recommendations[i].description) ELSE 200) \o "..."]]
              criteria ==
                (IF TruthyStr(args, "interests") THEN <<"Interests: " \o args.interests>> ELSE <<>>)
                \o (IF TruthyStr(args, "location") THEN <<"Location: " \o args.location>> ELSE <<>>)
                \o (IF TruthyStr(args, "timeframe") THEN <<"Timeframe: " \o args.timeframe>> ELSE <<>>)
                \o (IF TruthyStr(args, "event_type") THEN <<"Event Type: " \o args.event_type>> ELSE <<>>)
          IN Fulfilled(PromptResult(
               <<Lit("Based on your criteria: " \o join(criteria) \o "\n\nI found "
                     \o ToString(Len(recommendations)) \o " events that match your preferences:\n\n"),
                 Json(recommendationData),
                 Lit("\n\nPlease provide personalized recommendations covering:")>>))

---------------------------------------------------------------------------
(* Resources: a handler returns {contents: [{uri, text, mimeType}]}, the text *)
(* being JSON.stringify of the data or of {error: message}                   *)

Document(uri, value) == [contents |-> <<[uri |-> uri, text |-> Json(value)]>>]
\* a failure rendered as an empty listing instead of {error: message}
emptyDocument(uri, message) == Document(uri, <<>>)

ErrorDocument(uri, message) == Document(uri, [error |-> message])

companies_resource(args, settled) ==
  LET data == getCompanies(<<>>, Out(settled, 1))
  IN IF data.state = "pending" THEN data
     ELSE IF data.state = "rejected"
          THEN Fulfilled(ErrorDocument("blockza://companies", "Failed to fetch companies: " \o data.error))
     ELSE Fulfilled(Document("blockza://companies", data.value))

company_profile_resource(args, settled) ==
  IF args.slug.type # "string"
  THEN Fulfilled(ErrorDocument("blockza://company/", "Invalid slug parameter"))
  ELSE LET company == getCompanyBySlug(args.slug.value, Out(settled, 1))
           uri == "blockza://company/" \o args.slug.value
       IN IF company.state = "pending" THEN company
          ELSE IF company.value = Null
               THEN Fulfilled(ErrorDocument(uri, "Company not found: " \o args.slug.value))
          ELSE Fulfilled(Document(uri, company.value))

categories_resource(args, settled) ==
  LET data == getCompanies(<<>>, Out(settled, 1))
      uri == "blockza://categories"
  IN IF data.state = "pending" THEN data
     ELSE IF data.state = "rejected"
          THEN Fulfilled(ErrorDocument(uri, "Failed to fetch categories: " \o data.error))
     ELSE IF data.value.type = "null"
          THEN Fulfilled(ErrorDocument(uri, "Failed to fetch categories: " \o TypeErrorReading("success")))
     ELSE LET categories == IF Success(data.value) /\ HasData(data.value)
                            THEN collect(data.value.props.data, "category") ELSE <<>>
          IN Fulfilled(Document(uri, [success |-> TRUE, categories |-> sort(categories)]))

events_resource(args, settled) ==
  LET events == getEvents(<<>>, Out(settled, 1))
  IN IF events.state = "pending" THEN events
     ELSE IF events.state = "rejected"
          THEN Fulfilled(ErrorDocument("blockza://events", "Failed to fetch events: " \o events.error))
     ELSE Fulfilled(Document("blockza://events", events.value))

event_details_resource(args, settled) ==
  IF args.id.type # "string"
  THEN Fulfilled(ErrorDocument("blockza://event/", "Invalid event ID parameter"))
  ELSE LET event == getEventById(args.id.value, Out(settled, 1))
           uri == "blockza://event/" \o args.id.value
       IN IF event.state = "pending" THEN event
          ELSE IF event.value = Null
               THEN Fulfilled(ErrorDocument(uri, "Event not found: " \o args.id.value))
          ELSE Fulfilled(Document(uri, event.value))

upcoming_events_resource(args, settled, t) ==
  LET events == getUpcomingEvents(Out(settled, 1), t)
  IN IF events.state = "pending" THEN events
     ELSE Fulfilled(Document("blockza://events/upcoming", events.value))

event_categories_resource(args, settled) ==
  LET events == getEvents(<<>>, Out(settled, 1))
      uri == "blockza://events/categories"
  IN IF events.state = "pending" THEN events
     ELSE IF events.state = "rejected"
          THEN Fulfilled(ErrorDocument(uri, "Failed to fetch event categories: " \o events.error))
     ELSE Fulfilled(Document(uri, [success |-> TRUE,
                                   categories |-> sort(collect(events.value, "category"))]))

---------------------------------------------------------------------------
(* The calls the host delivers *)

\* an optional argument: left out, or one of vals
Opt(f, vals) == {<<>>} \cup { f :> v : v \in vals }
Req(f, vals) == { f :> v : v \in vals }
Args(A, B) == { a @@ b : a \in A, b \in B }

Limits == {-1, 0, 2}
LimitTexts == {"", "0", "2", "abc"}
Identifiers == {"acme", "Acme Labs", "ghost", ""}
EventIds == {"e1", "e3", "ghost"}
UriValues == { [type |-> "string", value |-> "acme"], [type |-> "string", value |-> "e3"],
               [type |-> "string", value |-> "ghost"], [type |-> "array", value |-> "acme"] }

SearchCompaniesArgs ==
  Args(Args(Opt("search", {"acme"}), Opt("category", {"AI"})),
       Args(Opt("limit", {0, 2}), Opt("verified_only", {FALSE})))
CompanyDetailsArgs == Args(Req("identifier", Identifiers), Opt("include_team", {TRUE, FALSE}))
ByCategoryArgs == Args(Req("category", {"AI", ""}), Opt("limit", Limits))
TeamMembersArgs == Req("company_slug", Identifiers)
SearchEventsArgs ==
  Args(Args(Opt("search", {"summit"}), Opt("city", {"Dubai"})),
       Args(Opt("limit", {0, 2}), Opt("upcoming_only", {TRUE, FALSE})))
EventDetailsArgs == Req("event_id", EventIds)
UpcomingArgs == Opt("limit", Limits)
ByLocationArgs ==
  Args(Args(Opt("country", {"", "UAE"}), Opt("city", {"", "Dubai"})), Opt("limit", {0, 2}))
AnalyzeCompanyArgs == Opt("company_slug", {"acme", "ghost", ""})
CompareCompaniesArgs == Args(Opt("category", {"AI", ""}), Opt("limit", LimitTexts))
AnalyzeEventArgs == Opt("event_id", {"e1", "ghost", ""})
CompareEventsArgs ==
  Args(Args(Opt("category", {"Conference"}), Opt("location", {"dubai", "UAE"})),
       Opt("limit", {"0", "1", "abc"}))
RecommendationArgs ==
  Args(Args(Opt("interests", {"defi, ai"}), Opt("location", {"uae"})),
       Args(Opt("timeframe", {"next 3 months", "2025", "soon"}), Opt("event_type", {"conf"})))

---------------------------------------------------------------------------
(* The server: a registered handler runs from its start, through the       *)
(* requests of the invocation that have settled, up to its next await or   *)
(* its end                                                                 *)

NoCall == [kind |-> "none", name |-> "", args |-> <<>>]
NoResult == [state |-> "none"]

\* the invocations the server runs together, and the frame of a callback that
\* is not running
Invocations == 1..MaxInFlight
IdleFrame ==
  [pc |-> "idle", call |-> NoCall, requests |-> <<>>, outs |-> <<>>, at |-> 0, result |-> NoResult]

\* the /mcp requests handled together, a connection with no request, and the
\* state before any response
Connections == 1..MaxConnections
NoRequest == [stage |-> "free"]
NoReply == [status |-> 0]

\* randomUUID() of the T-th transport created: never one given out before
uuid(T) == "uuid-" \o ToString(T)

\* the session ids the registry can hold: those randomUUID() gives out in a run
SessionKeys == { uuid(T) : T \in 1..MaxTransports }

\* const transports = {}
NoTransports == [k \in SessionKeys |-> 0]

\* how the JavaScript engine of the build searches a run when it sorts
Engines == {"scanning", "bisecting"}

Run(c, settled, t) ==
  CASE c.name = "search_companies" -> search_companies(c.args, settled)
    [] c.name = "get_company_details" -> get_company_details(c.args, settled)
    [] c.name = "get_companies_by_category" -> get_companies_by_category(c.args, settled)
    [] c.name = "get_team_members" -> get_team_members(c.args, settled)
    [] c.name = "get_directory_stats" -> get_directory_stats(c.args, settled)
    [] c.name = "search_events" -> search_events(c.args, settled, t)
    [] c.name = "get_event_details" -> get_event_details(c.args, settled)
    [] c.name = "get_events_by_category" -> get_events_by_category(c.args, settled)
    [] c.name = "get_upcoming_events" -> get_upcoming_events(c.args, settled, t)
    [] c.name = "get_events_by_location" -> get_events_by_location(c.args, settled)
    [] c.name = "get_events_stats" -> get_events_stats(c.args, settled, t)
    [] c.name = "analyze_company" -> analyze_company(c.args, settled)
    [] c.name = "compare_companies" -> compare_companies(c.args, settled)
    [] c.name = "analyze_event" -> analyze_event(c.args, settled, t)
    [] c.name = "compare_events" -> compare_events(c.args, settled)
    [] c.name = "event_recommendations" -> event_recommendations(c.args, settled, t)
    [] c.name = "companies" -> companies_resource(c.args, settled)
    [] c.name = "company-profile" -> company_profile_resource(c.args, settled)
    [] c.name = "categories" -> categories_resource(c.args, settled)
    [] c.name = "events" -> events_resource(c.args, settled)
    [] c.name = "event-details" -> event_details_resource(c.args, settled)
    [] c.name = "upcoming-events" -> upcoming_events_resource(c.args, settled, t)
    [] c.name = "event-categories" -> event_categories_resource(c.args, settled)

TypeOK ==
  /\ pc \in {"idle", "awaiting", "done"}
  /\ call.kind \in {"none", "tool", "prompt", "resource"}
  /\ now \in Times
  /\ result.state \in {"none", "pending", "fulfilled", "rejected"}
  /\ engine \in Engines

Init ==
  /\ pc = "idle"
  /\ call = NoCall
  /\ requests = <<>>
  /\ outs = <<>>
  /\ now = DateOf("2025-05-31").time
  /\ result = NoResult
  /\ engine \in Engines
  /\ frames = [i \in Invocations |-> IdleFrame]
  /\ bodies = [i \in Invocations |-> <<>>]
  /\ transports = NoTransports
  /\ sessions = <<>>
  /\ http = [r \in Connections |-> NoRequest]
  /\ reply = NoReply

\* the host delivers call c; the handler has run to its first await or to its end
\* with outcome step
Invoke(c, step) ==
  /\ pc = "idle"
  /\ call' = c
  /\ outs' = <<>>
  /\ now' = now
  /\ engine' = engine
  /\ UNCHANGED aside
  /\ result' = step
  /\ pc' = IF step.state = "pending" THEN "awaiting" ELSE "done"
  /\ requests' = IF step.state = "pending" THEN <<step.request>> ELSE <<>>

\* the awaited request settles with outcome o at instant t; the handler resumes
\* and runs to its next await or to its end
Settle(o, t) ==
  /\ pc = "awaiting"
  /\ t >= now
  /\ outs' = Append(outs, o)
  /\ now' = t
  /\ call' = call
  /\ engine' = engine
  /\ UNCHANGED aside
  /\ result' = Run(call, Append(outs, o), t)
  /\ pc' = IF result'.state = "pending" THEN "awaiting" ELSE "done"
  /\ requests' = IF result'.state = "pending" THEN Append(requests, result'.request)
                 ELSE requests

DirectorySettles ==
  /\ pc = "awaiting"
  /\ requests[Len(requests)].endpoint = "directory"
  /\ \E o \in DirectoryOutcomes, t \in Times : Settle(o, t)

EventsSettles ==
  /\ pc = "awaiting"
  /\ requests[Len(requests)].endpoint = "events"
  /\ \E o \in EventsOutcomes, t \in Times : Settle(o, t)

\* the host receives the response of the invocation
Respond ==
  /\ pc = "done"
  /\ pc' = "idle"
  /\ call' = NoCall
  /\ requests' = <<>>
  /\ outs' = <<>>
  /\ result' = NoResult
  /\ now' = now
  /\ engine' = engine
  /\ UNCHANGED aside

Tool_search_companies ==
  /\ pc = "idle"
  /\ \E a \in SearchCompaniesArgs :
       Invoke([kind |-> "tool", name |-> "search_companies", args |-> a],
              search_companies(a, <<>>))

Tool_get_company_details ==
  /\ pc = "idle"
  /\ \E a \in CompanyDetailsArgs :
       Invoke([kind |-> "tool", name |-> "get_company_details", args |-> a],
              get_company_details(a, <<>>))

Tool_get_companies_by_category ==
  /\ pc = "idle"
  /\ \E a \in ByCategoryArgs :
       Invoke([kind |-> "tool", name |-> "get_companies_by_category", args |-> a],
              get_companies_by_category(a, <<>>))

Tool_get_team_members ==
  /\ pc = "idle"
  /\ \E a \in TeamMembersArgs :
       Invoke([kind |-> "tool", name |-> "get_team_members", args |-> a],
              get_team_members(a, <<>>))

Tool_get_directory_stats ==
  /\ pc = "idle"
  /\ Invoke([kind |-> "tool", name |-> "get_directory_stats", args |-> <<>>],
            get_directory_stats(<<>>, <<>>))

Tool_search_events ==
  /\ pc = "idle"
  /\ \E a \in SearchEventsArgs :
       Invoke([kind |-> "tool", name |-> "search_events", args |-> a],
              search_events(a, <<>>, now))

Tool_get_event_details ==
  /\ pc = "idle"
  /\ \E a \in EventDetailsArgs :
       Invoke([kind |-> "tool", name |-> "get_event_details", args |-> a],
              get_event_details(a, <<>>))

Tool_get_events_by_category ==
  /\ pc = "idle"
  /\ \E a \in ByCategoryArgs :
       Invoke([kind |-> "tool", name |-> "get_events_by_category", args |-> a],
              get_events_by_category(a, <<>>))

Tool_get_upcoming_events ==
  /\ pc = "idle"
  /\ \E a \in UpcomingArgs :
       Invoke([kind |-> "tool", name |-> "get_upcoming_events", args |-> a],
              get_upcoming_events(a, <<>>, now))

Tool_get_events_by_location ==
  /\ pc = "idle"
  /\ \E a \in ByLocationArgs :
       Invoke([kind |-> "tool", name |-> "get_events_by_location", args |-> a],
              get_events_by_location(a, <<>>))

Tool_get_events_stats ==
  /\ pc = "idle"
  /\ Invoke([kind |-> "tool", name |-> "get_events_stats", args |-> <<>>],
            get_events_stats(<<>>, <<>>, now))

Prompt_analyze_company ==
  /\ pc = "idle"
  /\ \E a \in AnalyzeCompanyArgs :
       Invoke([kind |-> "prompt", name |-> "analyze_company", args |-> a],
              analyze_company(a, <<>>))

Prompt_compare_companies ==
  /\ pc = "idle"
  /\ \E a \in CompareCompaniesArgs :
       Invoke([kind |-> "prompt", name |-> "compare_companies", args |-> a],
              compare_companies(a, <<>>))

Prompt_analyze_event ==
  /\ pc = "idle"
  /\ \E a \in AnalyzeEventArgs :
       Invoke([kind |-> "prompt", name |-> "analyze_event", args |-> a],
              analyze_event(a, <<>>, now))

Prompt_compare_events ==
  /\ pc = "idle"
  /\ \E a \in CompareEventsArgs :
       Invoke([kind |-> "prompt", name |-> "compare_events", args |-> a],
              compare_events(a, <<>>))

Prompt_event_recommendations ==
  /\ pc = "idle"
  /\ \E a \in RecommendationArgs :
       Invoke([kind |-> "prompt", name |-> "event_recommendations", args |-> a],
              event_recommendations(a, <<>>, now))

Resource_companies ==
  /\ pc = "idle"
  /\ Invoke([kind |-> "resource", name |-> "companies", args |-> <<>>],
            companies_resource(<<>>, <<>>))

Resource_company_profile ==
  /\ pc = "idle"
  /\ \E v \in UriValues :
       Invoke([kind |-> "resource", name |-> "company-profile", args |-> [slug |-> v]],
              company_profile_resource([slug |-> v], <<>>))

Resource_categories ==
  /\ pc = "idle"
  /\ Invoke([kind |-> "resource", name |-> "categories", args |-> <<>>],
            categories_resource(<<>>, <<>>))

Resource_events ==
  /\ pc = "idle"
  /\ Invoke([kind |-> "resource", name |-> "events", args |-> <<>>],
            events_resource(<<>>, <<>>))

Resource_event_details ==
  /\ pc = "idle"
  /\ \E v \in UriValues :
       Invoke([kind |-> "resource", name |-> "event-details", args |-> [id |-> v]],
              event_details_resource([id |-> v], <<>>))

Resource_upcoming_events ==
  /\ pc = "idle"
  /\ Invoke([kind |-> "resource", name |-> "upcoming-events", args |-> <<>>],
            upcoming_events_resource(<<>>, <<>>, now))

Resource_event_categories ==
  /\ pc = "idle"
  /\ Invoke([kind |-> "resource", name |-> "event-categories", args |-> <<>>],
            event_categories_resource(<<>>, <<>>))

Next ==
  \/ Tool_search_companies
  \/ Tool_get_company_details
  \/ Tool_get_companies_by_category
  \/ Tool_get_team_members
  \/ Tool_get_directory_stats
  \/ Tool_search_events
  \/ Tool_get_event_details
  \/ Tool_get_events_by_category
  \/ Tool_get_upcoming_events
  \/ Tool_get_events_by_location
  \/ Tool_get_events_stats
  \/ Prompt_analyze_company
  \/ Prompt_compare_companies
  \/ Prompt_analyze_event
  \/ Prompt_compare_events
  \/ Prompt_event_recommendations
  \/ Resource_companies
  \/ Resource_company_profile
  \/ Resource_categories
  \/ Resource_events
  \/ Resource_event_details
  \/ Resource_upcoming_events
  \/ Resource_event_categories
  \/ DirectorySettles
  \/ EventsSettles
  \/ Respond

Spec == Init /\ [][Next]_vars

---------------------------------------------------------------------------
(* Invocations in flight together.  The server starts a callback for every *)
(* call it receives; a callback suspended on its request lets the others   *)
(* run.  Each invocation has its own frame (arguments, locals, the promise *)
(* it returns).  The body of a response is an object that response.json()  *)
(* allocates; a handler reads it, and Array.prototype.sort writes it in    *)
(* place.  apiClient has no field that is assigned after construction.     *)

\* one object that every response is parsed into
sharedRef(i) == 1

\* the object response.json() returns to invocation i: a new one for each response
ref(i) == i

\* the calls and upstream outcomes followed when invocations run together
companyWithSlug(slug) == CHOOSE c \in Companies : c.slug = slug
eventWithId(id) == CHOOSE e \in Events : e._id = id

InFlightCalls ==
  { [kind |-> "prompt", name |-> "compare_companies", args |-> [category |-> "AI"]],
    [kind |-> "tool", name |-> "get_companies_by_category", args |-> [category |-> "AI"]],
    [kind |-> "tool", name |-> "get_events_stats", args |-> <<>>],
    [kind |-> "tool", name |-> "get_upcoming_events", args |-> <<>>] }

InFlightDirectoryOutcomes ==
  { [kind |-> "network_error"],
    OkOutcome(ObjectBody([success |-> TRUE, data |-> <<companyWithSlug("acme-labs"), companyWithSlug("acme")>>])),
    OkOutcome(ObjectBody([success |-> TRUE, data |-> <<companyWithSlug("nova")>>])) }

InFlightEventsOutcomes ==
  { [kind |-> "network_error"],
    OkOutcome(ArrayBody(<<eventWithId("e1"), eventWithId("e2")>>)),
    OkOutcome(ArrayBody(<<eventWithId("e3")>>)) }

\* the response objects of an invocation once its handler has run to its end:
\* compare_companies has sorted data.data in place
written(c, read) ==
  IF /\ c.name = "compare_companies"
     /\ Len(read) >= 1
     /\ read[1].kind = "ok"
     /\ Success(read[1].body)
     /\ HasData(read[1].body)
  THEN [read EXCEPT ![1].body.props.data = sortByEngagement(@)]
  ELSE read

\* the frame of invocation i after its handler ran, at instant t, to its next
\* await or to its end with outcome step, having been delivered outcomes delivered
Frame(f, c, delivered, t, step) ==
  [pc |-> IF step.state = "pending" THEN "awaiting" ELSE "done",
   call |-> c,
   requests |-> IF step.state = "pending" THEN Append(f.requests, step.request) ELSE f.requests,
   outs |-> delivered,
   at |-> t,
   result |-> step]

\* a callback runs from its start to its first await
begin(c, t) ==
  CASE c.name = "compare_companies" -> compare_companies(c.args, <<>>)
    [] c.name = "get_companies_by_category" -> get_companies_by_category(c.args, <<>>)
    [] c.name = "get_events_stats" -> get_events_stats(c.args, <<>>, t)
    [] c.name = "get_upcoming_events" -> get_upcoming_events(c.args, <<>>, t)

\* the server calls a callback while others are suspended
Starts ==
  \E i \in Invocations :
    /\ frames[i].pc = "idle"
    /\ \E c \in InFlightCalls : \E step \in {begin(c, now)} :
         /\ frames' = [frames EXCEPT ![i] = Frame(IdleFrame, c, <<>>, now, step)]
         /\ bodies' = [bodies EXCEPT ![ref(i)] = <<>>]
    /\ UNCHANGED <<handler, wire>>

\* the request invocation i awaits settles with outcome o at instant t; the
\* handler resumes on the objects it holds and runs to its next await or its end
Resume(i, o, t) ==
  /\ frames[i].pc = "awaiting"
  /\ t >= now
  /\ now' = t
  /\ \E read \in {Append(bodies[ref(i)], o)} : \E step \in {Run(frames[i].call, read, t)} :
       /\ frames' = [frames EXCEPT ![i] = Frame(@, @.call, Append(@.outs, o), t, step)]
       /\ bodies' = [bodies EXCEPT ![ref(i)] =
                       IF step.state = "pending" THEN read ELSE written(frames[i].call, read)]
  /\ UNCHANGED <<pc, call, requests, outs, result, engine, wire>>

DirectoryResumes ==
  \E i \in Invocations :
    /\ frames[i].pc = "awaiting"
    /\ frames[i].requests[Len(frames[i].requests)].endpoint = "directory"
    /\ \E o \in InFlightDirectoryOutcomes, t \in Times : Resume(i, o, t)

EventsResumes ==
  \E i \in Invocations :
    /\ frames[i].pc = "awaiting"
    /\ frames[i].requests[Len(frames[i].requests)].endpoint = "events"
    /\ \E o \in InFlightEventsOutcomes, t \in Times : Resume(i, o, t)

\* the response of invocation i is sent; its frame and its objects are dropped
Delivers ==
  \E i \in Invocations :
    /\ frames[i].pc = "done"
    /\ frames' = [frames EXCEPT ![i] = IdleFrame]
    /\ bodies' = [bodies EXCEPT ![ref(i)] = <<>>]
    /\ UNCHANGED <<handler, wire>>

ConcurrentNext == Starts \/ DirectoryResumes \/ EventsResumes \/ Delivers

Concurrent == Init /\ [][ConcurrentNext]_vars

---------------------------------------------------------------------------
(* The HTTP mode of main: the /mcp endpoint.  A request is received (a     *)
(* POST body is collected), routed on its Mcp-Session-Id header and body,  *)
(* and handed to a transport.  The transport (StreamableHTTPServerTransport *)
(* of the SDK) initialises its session when it handles the initialize      *)
(* request it was created for, calling onsessioninitialized with a fresh   *)
(* randomUUID(), and closes when it handles a DELETE, calling onclose.     *)
(* transports maps a session id to the number of its transport in          *)
(* sessions, 0 standing for a property that is not there.                  *)

\* values of the Mcp-Session-Id header: none, a session id, or a name that
\* every object inherits from Object.prototype
ObjectPrototypeKeys == {"toString"}
SessionHeaders == {undefined} \cup SessionKeys \cup ObjectPrototypeKeys

\* the /mcp requests: the body of a request that is no POST is not read
McpRequests ==
  { [method |-> "POST", session |-> s, body |-> b] :
      s \in SessionHeaders, b \in {"initialize", "notification", "malformed"} }
  \cup { [method |-> m, session |-> s, body |-> ""] :
           m \in {"GET", "DELETE"}, s \in SessionHeaders }

\* transports[sessionId]: a registered transport, nothing (0), or a member
\* inherited from Object.prototype (-1)
lookup(map, sessionId) ==
  IF sessionId \in SessionKeys THEN map[sessionId]
  ELSE IF sessionId \in ObjectPrototypeKeys THEN -1
  ELSE 0

\* body ? JSON.parse(body) : undefined throws on a body that is no JSON
parseThrows(req) == req.method = "POST" /\ req.body = "malformed"

\* sessionId && transports[sessionId]
sessionKnown(map, req) == req.session # undefined /\ lookup(map, req.session) # 0

\* !sessionId && req.method === 'POST' && parsedBody && isInitializeRequest(parsedBody)
isInitialization(req) ==
  req.session = undefined /\ req.method = "POST" /\ req.body = "initialize"

\* new StreamableHTTPServerTransport({...})
NewTransport == [sessionId |-> undefined, initialized |-> FALSE, closed |-> FALSE]

\* onsessioninitialized: transports[sessionId] = transport
onsessioninitialized(map, sessionId, T) == [map EXCEPT ![sessionId] = T]

\* a close handler that leaves the registry as it is
oncloseKeeps(map, sid) == map

\* transport.onclose: if (sid && transports[sid]) delete transports[sid]
onclose(map, sid) ==
  IF sid # undefined /\ map[sid] # 0 THEN [map EXCEPT ![sid] = 0] ELSE map

\* the response written for the request of connection r, which then is over;
\* keyed tells whether the session id of the request was a key of transports
\* when the request was routed, or when its body failed to parse
Replies(r, status, created, after) ==
  /\ reply' = [status |-> status, session |-> http[r].session,
               initialization |-> http[r].method = "POST" /\ http[r].body = "initialize",
               keyed |-> \/ http[r].keyed
                         \/ /\ http[r].stage = "received"
                            /\ lookup(transports, http[r].session) > 0,
               created |-> created,
               connected |-> http[r].connected, changed |-> after # transports]
  /\ http' = [http EXCEPT ![r] = NoRequest]

\* a request for /mcp is received, its body collected if it is a POST
Arrives ==
  \E r \in Connections, req \in McpRequests :
    /\ http[r].stage = "free"
    /\ isInitialization(req) =>
         Len(sessions) + Cardinality({ q \in Connections :
                                         http[q].stage = "received" /\ http[q].creates })
           < MaxTransports
    /\ http' = [http EXCEPT ![r] =
                  [stage |-> "received", method |-> req.method, session |-> req.session,
                   body |-> req.body, creates |-> isInitialization(req), transport |-> 0,
                   keyed |-> FALSE, connected |-> FALSE]]
    /\ UNCHANGED <<handler, frames, bodies, transports, sessions, reply>>

\* the body is parsed and the request is routed: to the transport of its
\* session, to a new transport that is connected to the server, or to a 400;
\* what is thrown is caught and answered with a 500
Routes ==
  \E r \in Connections :
    /\ http[r].stage = "received"
    /\ LET req == http[r]
           T == Len(sessions) + 1
       IN IF parseThrows(req)
          THEN /\ Replies(r, 500, FALSE, transports)
               /\ UNCHANGED <<transports, sessions>>
          ELSE IF sessionKnown(transports, req)
          THEN IF lookup(transports, req.session) > 0
               THEN /\ http' = [http EXCEPT ![r].stage = "routed",
                                            ![r].transport = lookup(transports, req.session),
                                            ![r].keyed = TRUE]
                    /\ UNCHANGED <<transports, sessions, reply>>
               ELSE /\ Replies(r, 400, FALSE, transports)
                    /\ UNCHANGED <<transports, sessions>>
          ELSE IF isInitialization(req)
          THEN /\ sessions' = Append(sessions, NewTransport)
               /\ http' = [http EXCEPT ![r].stage = "connecting", ![r].transport = T,
                                       ![r].connected = TRUE]
               /\ UNCHANGED <<transports, reply>>
          ELSE /\ Replies(r, 400, FALSE, transports)
               /\ UNCHANGED <<transports, sessions>>
    /\ UNCHANGED <<handler, frames, bodies>>

\* await server.connect(transport) resolves, or it rejects and a 500 is written
Connects ==
  \E r \in Connections :
    /\ http[r].stage = "connecting"
    /\ \/ /\ http' = [http EXCEPT ![r].stage = "routed"]
          /\ UNCHANGED reply
       \/ Replies(r, 500, TRUE, transports)
    /\ UNCHANGED <<handler, frames, bodies, transports, sessions>>

\* await transport.handleRequest(req, res, parsedBody): the transport
\* initialises its session on the initialize request it was created for, unless
\* it refuses the request; it closes on a DELETE; it answers any other request
\* and changes nothing
Handles ==
  \E r \in Connections :
    /\ http[r].stage = "routed"
    /\ LET T == http[r].transport
           created == http[r].creates
       IN IF http[r].method = "POST" /\ http[r].body = "initialize"
          THEN IF sessions[T].initialized
               THEN /\ Replies(r, 400, created, transports)
                    /\ UNCHANGED <<transports, sessions>>
               ELSE \/ /\ sessions' = [sessions EXCEPT ![T].sessionId = uuid(T),
                                                       ![T].initialized = TRUE]
                       /\ transports' = onsessioninitialized(transports, uuid(T), T)
                       /\ Replies(r, 200, created, transports')
                    \/ /\ Replies(r, 406, created, transports)
                       /\ UNCHANGED <<transports, sessions>>
          ELSE IF http[r].method = "DELETE"
          THEN /\ sessions' = [sessions EXCEPT ![T].closed = TRUE]
               /\ transports' = onclose(transports, sessions[T].sessionId)
               /\ Replies(r, 200, created, transports')
          ELSE /\ Replies(r, 200, created, transports)
               /\ UNCHANGED <<transports, sessions>>
    /\ UNCHANGED <<handler, frames, bodies>>

TransportNext == Arrives \/ Routes \/ Connects \/ Handles

Transport == Init /\ [][TransportNext]_vars

---------------------------------------------------------------------------
(* Properties of the handlers, stated on the state the host observes:      *)
(* the call, the requests it issued, how they settled, and its result      *)

\* the invocation of handler name has run to its end
Done(kind, name) == pc = "done" /\ call.kind = kind /\ call.name = name

\* the first request was answered 2xx with a {success: true, data: [...]} envelope
DirectoryListed ==
  /\ Len(outs) >= 1
  /\ outs[1].kind = "ok"
  /\ outs[1].body.type = "object"
  /\ Has(outs[1].body.props, "success")
  /\ outs[1].body.props.success
  /\ Has(outs[1].body.props, "data")

\* the first request was answered 2xx with a JSON array
EventsListed ==
  /\ Len(outs) >= 1
  /\ outs[1].kind = "ok"
  /\ outs[1].body.type = "array"

\* the first request failed: network error, non-2xx status or unparsable body
UpstreamFailed == Len(outs) >= 1 /\ outs[1] \in FetchFailures

\* a tool result with the error flag set
Flagged(r) == Has(r, "isError") /\ r.isError

\* the text of the only content item of a tool result
TextOf(r) == r.content[1].text

\* C1: getCompanyBySlug(s), as blockza://company/{s} exposes it, issues one
\* search with search = s; if a record of the search result has slug s it returns
\* a record with slug s, wherever it stands in the result; otherwise it returns
\* the first record of a non-empty result; on an empty result it returns null
\* (the resource reports "Company not found") and nothing is thrown.
C1_SelectionRule ==
  (Done("resource", "company-profile") /\ call.args.slug.type = "string" /\ DirectoryListed) =>
    LET s == call.args.slug.value
        L == outs[1].body.props.data
        matches == { i \in 1..Len(L) : L[i].slug = s }
        text == result.value.contents[1].text
    IN /\ Len(requests) = 1
       /\ requests[1].endpoint = "directory"
       /\ requests[1].params = [search |-> s]
       /\ requests[1].query = [search |-> s]
       /\ result.state = "fulfilled"
       /\ matches # {} => \E i \in matches : text = Json(L[i])
       /\ (matches = {} /\ Len(L) > 0) => text = Json(L[1])
       /\ Len(L) = 0 => text = Json([error |-> "Company not found: " \o s])

\* the exact match stands second in the search result and is the one returned
C1_Witness ==
  /\ Done("resource", "company-profile")
  /\ call.args.slug.type = "string"
  /\ DirectoryListed
  /\ Len(outs[1].body.props.data) >= 2
  /\ outs[1].body.props.data[1].slug # call.args.slug.value
  /\ outs[1].body.props.data[2].slug = call.args.slug.value
  /\ result.value.contents[1].text = Json(outs[1].body.props.data[2])

\* C2 as stated: an identifier that is no slug (no _id) of any upstream record
\* gets the not-found result from get_company_details (get_event_details).
C2_AbsentIsNotFound ==
  /\ (Done("tool", "get_company_details")
        /\ \A c \in Companies : c.slug # call.args.identifier)
       => result = Fulfilled(ErrorResult("Company not found: " \o call.args.identifier))
  /\ (Done("tool", "get_event_details")
        /\ \A e \in Events : e._id # call.args.event_id)
       => result = Fulfilled(ErrorResult("Event not found: " \o call.args.event_id))

\* C2, amended: get_event_details returns the not-found result for every id that
\* is not the _id of a record of the fetched listing; get_company_details returns
\* the not-found result when the search yields no record, and the details of the
\* first search result, without error flag, when the search yields records of
\* which none has the identifier as slug; neither handler throws.
C2_NotFoundOrFirstResult ==
  /\ Done("tool", "get_event_details") =>
       /\ result.state = "fulfilled"
       /\ ~(EventsListed /\ \E i \in 1..Len(outs[1].body.items) :
                              outs[1].body.items[i]._id = call.args.event_id)
            => result.value = ErrorResult("Event not found: " \o call.args.event_id)
  /\ Done("tool", "get_company_details") =>
       /\ result.state = "fulfilled"
       /\ ~(DirectoryListed /\ Len(outs[1].body.props.data) > 0)
            => result.value = ErrorResult("Company not found: " \o call.args.identifier)
       /\ (DirectoryListed /\ Len(outs[1].body.props.data) > 0
             /\ \A i \in 1..Len(outs[1].body.props.data) :
                  outs[1].body.props.data[i].slug # call.args.identifier)
            => /\ ~Flagged(result.value)
               /\ TextOf(result.value)[1].json.basic_info.slug = outs[1].body.props.data[1].slug

\* an identifier that is no slug of the directory gets the details of the first hit,
\* and an id that no fetched event has gets the not-found result
C2_Witness ==
  \/ /\ Done("tool", "get_company_details")
     /\ call.args.identifier = "ghost"
     /\ DirectoryListed
     /\ Len(outs[1].body.props.data) > 0
     /\ ~Flagged(result.value)
     /\ TextOf(result.value)[1].json.basic_info.slug = outs[1].body.props.data[1].slug
  \/ /\ Done("tool", "get_event_details")
     /\ call.args.event_id = "ghost"
     /\ EventsListed
     /\ Len(outs[1].body.items) > 0
     /\ result.value = ErrorResult("Event not found: ghost")

\* C3 as stated: when the upstream request fails, get_company_details,
\* get_team_members and get_event_details return an error result that carries the
\* upstream error message, and not the not-found result.
C3_FailureIsNotNotFound ==
  (pc = "done" /\ call.kind = "tool" /\ UpstreamFailed
     /\ call.name \in {"get_company_details", "get_team_members", "get_event_details"}) =>
    /\ result.state = "fulfilled"
    /\ Flagged(result.value)
    /\ includes(TextOf(result.value)[1].lit, FetchError(outs[1]))

\* tools whose client call lets the upstream error reach the handler's catch
\* block, or that report a lookup that came back null as an error
FlaggingTools ==
  {"search_companies", "get_company_details", "get_team_members",
   "search_events", "get_event_details"}

\* tools whose client call swallows the upstream error and yields an empty list
ListingTools ==
  {"get_companies_by_category", "get_events_by_category", "get_upcoming_events",
   "get_events_by_location"}

\* C4 as stated: no tool invocation throws, and whenever an upstream request of
\* the invocation failed the result has the error flag and a text message.
C4_FailureIsFlagged ==
  (pc = "done" /\ call.kind = "tool") =>
    /\ result.state = "fulfilled"
    /\ (\E i \in 1..Len(outs) : outs[i] \in FetchFailures) =>
         /\ Flagged(result.value)
         /\ Len(TextOf(result.value)) > 0

\* C4, amended: no tool invocation throws and every result has one text item;
\* when the upstream request fails, search_companies, get_company_details,
\* get_team_members, search_events and get_event_details return a result with the
\* error flag and a non-empty message, while get_companies_by_category,
\* get_events_by_category, get_upcoming_events and get_events_by_location return
\* an unflagged result listing zero records.
C4_NeverThrowsFlagsWhereStrict ==
  (pc = "done" /\ call.kind = "tool") =>
    /\ result.state = "fulfilled"
    /\ Len(result.value.content) = 1
    /\ result.value.content[1].type = "text"
    /\ Len(TextOf(result.value)) > 0
    /\ (UpstreamFailed /\ call.name \in FlaggingTools) =>
         /\ Flagged(result.value)
         /\ Len(TextOf(result.value)) = 1
         /\ Has(TextOf(result.value)[1], "lit")
         /\ TextOf(result.value)[1].lit # ""
    /\ (UpstreamFailed /\ call.name \in ListingTools) =>
         /\ ~Flagged(result.value)
         /\ TextOf(result.value)[2] = Json(<<>>)

\* an upstream failure reaches search_companies and comes back flagged, with the
\* upstream message in the text
C4_Witness ==
  /\ Done("tool", "search_companies")
  /\ UpstreamFailed
  /\ Flagged(result.value)
  /\ includes(TextOf(result.value)[1].lit, FetchError(outs[1]))

\* C5, its particular case as stated: compare_events called with only a location
\* while the upstream events request fails resolves to a non-empty message
\* sequence.
C5_LocationOnlyResolves ==
  (Done("prompt", "compare_events") /\ ~Has(call.args, "category")
     /\ Has(call.args, "location") /\ UpstreamFailed) =>
    /\ result.state = "fulfilled"
    /\ Len(result.value.messages) > 0

\* C6: get_events_by_location called with neither a country nor a city, each
\* absent or empty, returns the validation error (error flag, a message asking
\* for a country or a city) and issues no upstream request: the invocation is
\* never found awaiting one.
C6_ValidationBeforeRequest ==
  (call.kind = "tool" /\ call.name = "get_events_by_location"
     /\ (~Has(call.args, "country") \/ call.args.country = "")
     /\ (~Has(call.args, "city") \/ call.args.city = "")) =>
    /\ pc = "done"
    /\ requests = <<>>
    /\ outs = <<>>
    /\ result.state = "fulfilled"
    /\ Flagged(result.value)
    /\ TextOf(result.value) = <<Lit("Please provide either a country or city parameter")>>

\* the country is given as the empty string and the city is left out
C6_Witness ==
  /\ Done("tool", "get_events_by_location")
  /\ Has(call.args, "country")
  /\ call.args.country = ""
  /\ ~Has(call.args, "city")
  /\ requests = <<>>
  /\ Flagged(result.value)

\* C7: for the listing L the events request returned and the time T at which the
\* filter runs, getUpcomingEvents, as blockza://events/upcoming exposes it,
\* returns exactly the records of L whose eventStartDate is a date strictly later
\* than T, in the order of L; a record starting at T or earlier is not returned.
C7_UpcomingIsLaterSubsequence ==
  (Done("resource", "upcoming-events") /\ EventsListed) =>
    LET L == outs[1].body.items
        R == result.value.contents[1].text.json
        later == { j \in 1..Len(L) : /\ DateOf(L[j].eventStartDate).valid
                                     /\ DateOf(L[j].eventStartDate).time > now }
        nth(i) == CHOOSE j \in later : Cardinality({ k \in later : k < j }) = i - 1
    IN /\ result.state = "fulfilled"
       /\ Len(R) = Cardinality(later)
       /\ \A i \in 1..Len(R) : R[i] = L[nth(i)]
       /\ \A i \in 1..Len(R) : DateOf(R[i].eventStartDate).time > now

\* the listing holds an event that starts exactly at T, dropped, before one that
\* starts later, kept
C7_Witness ==
  /\ Done("resource", "upcoming-events")
  /\ EventsListed
  /\ Len(outs[1].body.items) >= 2
  /\ DateOf(outs[1].body.items[1].eventStartDate).valid
  /\ DateOf(outs[1].body.items[1].eventStartDate).time = now
  /\ DateOf(outs[1].body.items[2].eventStartDate).time > now
  /\ result.value.contents[1].text.json[1] = outs[1].body.items[2]

\* the distinct non-empty values of field f over listing L
DistinctValues(L, f) ==
  { L[i][f] : i \in { j \in 1..Len(L) : Has(L[j], f) /\ L[j][f] # "" } }

\* seq lists exactly the members of S, each once, in ascending order
AscendingListOf(seq, S) ==
  /\ { seq[i] : i \in 1..Len(seq) } = S
  /\ \A i \in 1..Len(seq) : seq[i] # ""
  /\ \A i, j \in 1..Len(seq) : i < j => StrLess(seq[i], seq[j])

\* C8: every aggregate set of blockza://categories, blockza://events/categories,
\* get_directory_stats (categories) and get_events_stats (categories, countries,
\* cities, companies) is exactly the set of distinct non-empty values of its field
\* over the whole fetched listing, in ascending order, with no duplicate and no
\* empty string, and the total_* count next to it is its length.
C8_AggregateSets ==
  /\ (Done("resource", "categories") /\ DirectoryListed) =>
       AscendingListOf(result.value.contents[1].text.json.categories,
                       DistinctValues(outs[1].body.props.data, "category"))
  /\ (Done("resource", "event-categories") /\ EventsListed) =>
       AscendingListOf(result.value.contents[1].text.json.categories,
                       DistinctValues(outs[1].body.items, "category"))
  /\ (Done("tool", "get_directory_stats") /\ DirectoryListed) =>
       LET stats == TextOf(result.value)[1].json
       IN /\ AscendingListOf(stats.categories,
                             DistinctValues(outs[1].body.props.data, "category"))
          /\ stats.total_categories = Len(stats.categories)
  /\ (Done("tool", "get_events_stats") /\ EventsListed) =>
       LET stats == TextOf(result.value)[1].json
           L == outs[1].body.items
       IN /\ AscendingListOf(stats.categories, DistinctValues(L, "category"))
          /\ stats.total_categories = Len(stats.categories)
          /\ AscendingListOf(stats.countries, DistinctValues(L, "country"))
          /\ stats.total_countries = Len(stats.countries)
          /\ AscendingListOf(stats.cities, DistinctValues(L, "city"))
          /\ stats.total_cities = Len(stats.cities)
          /\ AscendingListOf(stats.companies, DistinctValues(L, "company"))
          /\ stats.total_companies = Len(stats.companies)

\* the listing carries its categories in descending order, one of them twice
C8_Witness ==
  /\ Done("tool", "get_events_stats")
  /\ EventsListed
  /\ Len(outs[1].body.items) = 3
  /\ outs[1].body.items[1].category = "Meetup"
  /\ outs[1].body.items[2].category = "Conference"
  /\ outs[1].body.items[3].category = "Conference"
  /\ TextOf(result.value)[1].json.categories = <<"Conference", "Meetup">>
  /\ TextOf(result.value)[1].json.total_categories = 2

\* the sum of counter f over listing L, a missing counter counted as 0
RECURSIVE CounterSum(_, _)
CounterSum(L, f) ==
  IF L = <<>> THEN 0
  ELSE (IF Has(L[1], f) THEN L[1][f] ELSE 0) + CounterSum(Tail(L), f)

\* the decimal numeral of h hundredths, with two decimals
TwoDecimals(h) ==
  ToString(h \div 100) \o "." \o ToString((h % 100) \div 10) \o ToString(h % 10)

\* the JSON value v is a number or a two-decimal numeral worth exactly sum / n
IsQuotient(v, sum, n) ==
  \/ \E k \in 0..sum : v = Num(k) /\ k * n = sum
  \/ \E h \in 0..(100 * sum) : v = Str(TwoDecimals(h)) /\ h * n = 100 * sum

\* the JSON value v is the two-decimal numeral nearest to sum / n
IsRoundedQuotient(v, sum, n) ==
  \E h \in 0..(100 * sum + 1) :
    /\ v = Str(TwoDecimals(h))
    /\ 2 * (h * n - 100 * sum) <= n
    /\ 2 * (100 * sum - h * n) <= n

\* C9 as stated: in get_directory_stats both averages are 0 for an empty listing,
\* and total / number of companies for a non-empty one, a missing counter
\* counted as 0.
C9_AverageIsQuotient ==
  (Done("tool", "get_directory_stats") /\ DirectoryListed) =>
    LET L == outs[1].body.props.data
        stats == TextOf(result.value)[1].json
    IN /\ Len(L) = 0 => /\ stats.average_likes_per_company = Num(0)
                        /\ stats.average_views_per_company = Num(0)
       /\ Len(L) > 0 =>
            /\ IsQuotient(stats.average_likes_per_company, CounterSum(L, "likes"), Len(L))
            /\ IsQuotient(stats.average_views_per_company, CounterSum(L, "views"), Len(L))

\* C9, amended: both averages are the number 0 for an empty listing; for a
\* non-empty one each is a string, the two-decimal numeral nearest to total /
\* number of companies, where total_likes and total_views count a missing counter
\* as 0.
C9_AverageIsRoundedQuotient ==
  (Done("tool", "get_directory_stats") /\ DirectoryListed) =>
    LET L == outs[1].body.props.data
        stats == TextOf(result.value)[1].json
    IN /\ stats.total_likes = CounterSum(L, "likes")
       /\ stats.total_views = CounterSum(L, "views")
       /\ Len(L) = 0 => /\ stats.average_likes_per_company = Num(0)
                        /\ stats.average_views_per_company = Num(0)
       /\ Len(L) > 0 =>
            /\ IsRoundedQuotient(stats.average_likes_per_company, CounterSum(L, "likes"), Len(L))
            /\ IsRoundedQuotient(stats.average_views_per_company, CounterSum(L, "views"), Len(L))

\* three companies, one without a likes counter: 7 likes and 14 views in all
C9_Witness ==
  /\ Done("tool", "get_directory_stats")
  /\ DirectoryListed
  /\ Len(outs[1].body.props.data) = 3
  /\ \E i \in 1..3 : ~Has(outs[1].body.props.data[i], "likes")
  /\ TextOf(result.value)[1].json.average_likes_per_company = Str("2.33")
  /\ TextOf(result.value)[1].json.average_views_per_company = Str("4.67")

\* C10: compare_companies and compare_events, when they return and the candidate
\* set for the category (or location) is empty, return the guidance message
\* ("No companies found in category ..." / "No events found for ..."); no message
\* they return embeds an empty JSON array.
C10_EmptyGivesFallback ==
  /\ (Done("prompt", "compare_companies") /\ result.state = "fulfilled") =>
       LET text == result.value.messages[1].content.text
       IN /\ \A i \in 1..Len(text) : Has(text[i], "json") => Len(text[i].json) > 0
          /\ (Len(outs) = 1 /\ ~(DirectoryListed /\ Len(outs[1].body.props.data) > 0)) =>
               text = <<Lit("No companies found in category \"" \o call.args.category
                 \o "\". Please suggest how to find companies in this category or recommend similar categories.")>>
  /\ (Done("prompt", "compare_events") /\ result.state = "fulfilled") =>
       LET text == result.value.messages[1].content.text
           L == IF EventsListed THEN outs[1].body.items ELSE <<>>
           byCategory == Has(call.args, "category") /\ call.args.category # ""
           filterType == IF byCategory THEN call.args.category ELSE call.args.location
           candidates == IF byCategory THEN { i \in 1..Len(L) : TRUE }
                         ELSE { i \in 1..Len(L) : inLocation(L[i], call.args.location) }
       IN /\ \A i \in 1..Len(text) : Has(text[i], "json") => Len(text[i].json) > 0
          /\ (Len(outs) = 1 /\ candidates = {}) =>
               text = <<Lit("No events found for \"" \o filterType
                 \o "\". Please suggest how to find events in this category/location or recommend similar options.")>>

\* the events listing is not empty, but none of its events is at the location
C10_Witness ==
  /\ Done("prompt", "compare_events")
  /\ ~Has(call.args, "category")
  /\ EventsListed
  /\ Len(outs[1].body.items) > 0
  /\ \A i \in 1..Len(outs[1].body.items) : ~inLocation(outs[1].body.items[i], call.args.location)
  /\ result.state = "fulfilled"
  /\ Len(result.value.messages[1].content.text) = 1

\* C11: search_companies, on a successful upstream response holding n records,
\* returns n summary records, one per upstream record in upstream order, each with
\* that record's slug and category, and its summary sentence says "Found n
\* companies" with n the number of records of the embedded JSON block.
C11_OneSummaryPerRecord ==
  (Done("tool", "search_companies") /\ DirectoryListed) =>
    LET L == outs[1].body.props.data
        text == TextOf(result.value)
    IN /\ ~Flagged(result.value)
       /\ Len(text) = 3
       /\ text[1] = Lit("COMPANIES_DATA_START\n")
       /\ Len(text[2].json) = Len(L)
       /\ \A i \in 1..Len(L) : /\ text[2].json[i].slug = L[i].slug
                               /\ text[2].json[i].category = L[i].category
       /\ text[3] = Lit("\nCOMPANIES_DATA_END\n\nFound " \o ToString(Len(text[2].json))
                        \o " companies matching your search criteria.")

\* a category filter that the upstream answers with two companies of the category
C11_Witness ==
  /\ Done("tool", "search_companies")
  /\ Has(call.args, "category")
  /\ call.args.category = "AI"
  /\ DirectoryListed
  /\ Len(outs[1].body.props.data) = 2
  /\ \A i \in 1..2 : outs[1].body.props.data[i].category = "AI"
  /\ Len(TextOf(result.value)[2].json) = 2
  /\ \A i \in 1..2 : TextOf(result.value)[2].json[i].category = "AI"
  /\ includes(TextOf(result.value)[3].lit, "Found 2 companies")

\* the record of listing L that has the given slug
WithSlug(L, slug) == L[CHOOSE i \in 1..Len(L) : L[i].slug = slug]

\* C12 as stated: the detail object of get_company_details has the team_members
\* key if and only if include_team was supplied as true.
C12_TeamKeyIffRequested ==
  (Done("tool", "get_company_details") /\ ~Flagged(result.value)) =>
    (Has(TextOf(result.value)[1].json, "team_members")
       <=> (Has(call.args, "include_team") /\ call.args.include_team))

\* C12, amended: the serialised detail object has the team_members key, holding
\* the record's team list (an empty one included), if and only if include_team
\* was supplied as true and the company record carries a team list; when
\* include_team is false or absent the key is absent, whatever the number of
\* team members the company has.
C12_TeamKeyIffRequestedAndListed ==
  (Done("tool", "get_company_details") /\ ~Flagged(result.value)) =>
    LET details == TextOf(result.value)[1].json
        company == WithSlug(outs[1].body.props.data, details.basic_info.slug)
        requested == Has(call.args, "include_team") /\ call.args.include_team
    IN /\ Has(details, "team_members") <=> (requested /\ Has(company, "teamMembers"))
       /\ Has(details, "team_members") => details.team_members = company.teamMembers

\* include_team is false and the company has three team members: the key is absent
C12_Witness ==
  /\ Done("tool", "get_company_details")
  /\ ~Flagged(result.value)
  /\ Has(call.args, "include_team")
  /\ ~call.args.include_team
  /\ TextOf(result.value)[1].json.basic_info.slug = "acme"
  /\ Len(WithSlug(outs[1].body.props.data, "acme").teamMembers) = 3
  /\ ~Has(TextOf(result.value)[1].json, "team_members")

\* string s begins with string p
StartsWith(s, p) == Len(s) >= Len(p) /\ SubSeq(s, 1, Len(p)) = p

\* C13 as stated: every successful result of every tool is one text payload made
\* of a JSON block between a matching ..._DATA_START / ..._DATA_END pair, followed
\* by a summary sentence stating the result count.
C13_DelimitedBlockThenSummary ==
  (pc = "done" /\ call.kind = "tool" /\ result.state = "fulfilled" /\ ~Flagged(result.value)) =>
    LET text == TextOf(result.value)
    IN /\ Len(result.value.content) = 1
       /\ Len(text) = 3
       /\ Has(text[1], "lit")
       /\ Has(text[2], "json")
       /\ Has(text[3], "lit")
       /\ \E tag \in {"COMPANIES", "EVENTS", "TEAM"} :
            /\ text[1].lit = tag \o "_DATA_START\n"
            /\ StartsWith(text[3].lit, "\n" \o tag \o "_DATA_END\n\nFound ")

\* C14 as stated: between its delivery and its response an inbound call issues at
\* most one upstream request.
C14_AtMostOneRequest == Len(requests) <= 1

\* C15 as stated: get_directory_stats and get_events_stats answer an upstream
\* failure with an unflagged result whose counts are zero and whose aggregate
\* sets are empty.
C15_StatsDegradeToEmpty ==
  /\ (Done("tool", "get_directory_stats") /\ UpstreamFailed) =>
       /\ ~Flagged(result.value)
       /\ TextOf(result.value)[1].json.total_companies = 0
       /\ TextOf(result.value)[1].json.categories = <<>>
  /\ (Done("tool", "get_events_stats") /\ UpstreamFailed) =>
       /\ ~Flagged(result.value)
       /\ TextOf(result.value)[1].json.total_events = 0
       /\ TextOf(result.value)[1].json.categories = <<>>

\* C16: getCompaniesByCategory, getEventsByCategory and getEventsByLocation return
\* an empty sequence when their request fails, so get_companies_by_category,
\* get_events_by_category and get_events_by_location answer an upstream failure
\* with an unflagged result that embeds no record and reports 0 records.
C16_ListingsDegradeToEmpty ==
  (pc = "done" /\ call.kind = "tool" /\ UpstreamFailed
     /\ call.name \in {"get_companies_by_category", "get_events_by_category",
                       "get_events_by_location"}) =>
    LET text == TextOf(result.value)
        noun == IF call.name = "get_companies_by_category" THEN "companies" ELSE "events"
    IN /\ result.state = "fulfilled"
       /\ ~Flagged(result.value)
       /\ Len(text) = 3
       /\ text[2] = Json(<<>>)
       /\ includes(text[3].lit, "Found 0 " \o noun \o " in ")

\* the request of get_events_by_category fails with a non-2xx status
C16_Witness ==
  /\ Done("tool", "get_events_by_category")
  /\ Len(outs) = 1
  /\ outs[1].kind = "http_error"
  /\ ~Flagged(result.value)
  /\ TextOf(result.value)[2] = Json(<<>>)

\* the first request was answered 2xx with a body that is not what the endpoint
\* promises: a companies envelope with success = false, an events body that is
\* no array
NonConforming ==
  /\ Len(outs) >= 1
  /\ outs[1].kind = "ok"
  /\ \/ /\ requests[1].endpoint = "directory"
        /\ outs[1].body.type = "object"
        /\ Has(outs[1].body.props, "success")
        /\ ~outs[1].body.props.success
     \/ /\ requests[1].endpoint = "events"
        /\ outs[1].body.type # "array"

\* C17 as stated: a non-conforming upstream response makes the list operation
\* fail like a non-2xx status, so a tool answers it with an error result and
\* never with an empty listing.
C17_NonConformingIsFailure ==
  (pc = "done" /\ call.kind = "tool" /\ NonConforming) => Flagged(result.value)

\* C18 as stated: the parameter object that search_companies, search_events and
\* get_events_by_location hand to the upstream client has a key for an optional
\* string argument only if the caller supplied it, and never holds undefined
\* under such a key.
C18_AbsentNotForwarded ==
  (call.kind = "tool" /\ Len(requests) >= 1
     /\ call.name \in {"search_companies", "search_events", "get_events_by_location"}) =>
    \A f \in (DOMAIN requests[1].params) \cap {"search", "category", "country", "city"} :
      /\ Has(call.args, f)
      /\ requests[1].params[f] # undefined

\* the smaller of two integers
Min(a, b) == IF a < b THEN a ELSE b

\* the number of events of listing L that start strictly later than time t
LaterCount(L, t) ==
  Cardinality({ j \in 1..Len(L) : /\ DateOf(L[j].eventStartDate).valid
                                  /\ DateOf(L[j].eventStartDate).time > t })

\* C19 as stated: with limit = n, n >= 0, get_companies_by_category,
\* get_events_by_category, get_upcoming_events and get_events_by_location return
\* the first min(n, length) records of the fetched sequence, in fetched order, and
\* with no limit the whole fetched sequence.
C19_LimitTruncates ==
  /\ (Done("tool", "get_companies_by_category") /\ DirectoryListed) =>
       LET L == outs[1].body.props.data
           R == TextOf(result.value)[2].json
           n == IF Has(call.args, "limit") /\ call.args.limit >= 0
                THEN Min(call.args.limit, Len(L)) ELSE Len(L)
       IN (~Has(call.args, "limit") \/ call.args.limit >= 0) =>
            (Len(R) = n /\ \A i \in 1..n : R[i].slug = L[i].slug)
  /\ (pc = "done" /\ call.kind = "tool" /\ EventsListed
        /\ call.name \in {"get_events_by_category", "get_events_by_location"}) =>
       LET L == outs[1].body.items
           R == TextOf(result.value)[2].json
           n == IF Has(call.args, "limit") /\ call.args.limit >= 0
                THEN Min(call.args.limit, Len(L)) ELSE Len(L)
       IN (~Has(call.args, "limit") \/ call.args.limit >= 0) =>
            (Len(R) = n /\ \A i \in 1..n : R[i].id = L[i]._id)
  /\ (Done("tool", "get_upcoming_events") /\ EventsListed) =>
       LET fetched == LaterCount(outs[1].body.items, now)
           R == TextOf(result.value)[2].json
       IN (~Has(call.args, "limit") \/ call.args.limit >= 0) =>
            Len(R) = (IF Has(call.args, "limit") THEN Min(call.args.limit, fetched) ELSE fetched)

\* the count a caller asks a comparison prompt for: 5 when none is supplied
AskedCount(args) ==
  IF ~Has(args, "limit") \/ args.limit = "" THEN 5
  ELSE CASE args.limit = "0" -> 0
         [] args.limit = "1" -> 1
         [] args.limit = "2" -> 2
         [] OTHER -> -1

\* the entries a comparison prompt embeds: none in the guidance message
Embedded(text) == IF Len(text) = 3 THEN text[2].json ELSE <<>>

\* C20 as stated: compare_companies embeds min(k, number of candidates) companies
\* in non-increasing order of views + likes, compare_events embeds min(k, number
\* of candidates) events in non-decreasing order of start time, k being the count
\* asked for, and no candidate left out ranks higher than an embedded entry.
\* Ranks are compared where both are defined.
C20_RankThenTruncate ==
  /\ (Done("prompt", "compare_companies") /\ result.state = "fulfilled" /\ DirectoryListed
        /\ AskedCount(call.args) >= 0) =>
       LET L == outs[1].body.props.data
           R == Embedded(result.value.messages[1].content.text)
           ranked(c) == Has(c, "likes") /\ Has(c, "views")
           left == { c \in 1..Len(L) : \A i \in 1..Len(R) : R[i].name # L[c].name }
       IN /\ Len(R) = Min(AskedCount(call.args), Len(L))
          /\ \A i, j \in 1..Len(R) :
               (i < j /\ ranked(R[i].engagement) /\ ranked(R[j].engagement)) =>
                 R[i].engagement.views + R[i].engagement.likes
                   >= R[j].engagement.views + R[j].engagement.likes
          /\ \A i \in 1..Len(R), c \in left :
               (ranked(R[i].engagement) /\ ranked(L[c])) =>
                 R[i].engagement.views + R[i].engagement.likes >= L[c].views + L[c].likes
  /\ (Done("prompt", "compare_events") /\ result.state = "fulfilled" /\ EventsListed
        /\ AskedCount(call.args) >= 0) =>
       LET byCategory == Has(call.args, "category") /\ call.args.category # ""
           L == IF byCategory THEN outs[1].body.items
                ELSE SelectSeq(outs[1].body.items, LAMBDA e : inLocation(e, call.args.location))
           R == Embedded(result.value.messages[1].content.text)
           left == { c \in 1..Len(L) : \A i \in 1..Len(R) : R[i].id # L[c]._id }
       IN /\ Len(R) = Min(AskedCount(call.args), Len(L))
          /\ \A i, j \in 1..Len(R) :
               (i < j /\ DateOf(R[i].dates.start).valid /\ DateOf(R[j].dates.start).valid) =>
                 DateOf(R[i].dates.start).time <= DateOf(R[j].dates.start).time
          /\ \A i \in 1..Len(R), c \in left :
               (DateOf(R[i].dates.start).valid /\ DateOf(L[c].eventStartDate).valid) =>
                 DateOf(R[i].dates.start).time <= DateOf(L[c].eventStartDate).time

\* C21: getEventById(id), as blockza://event/{id} exposes it, issues one request
\* for the full event listing (no query); when the fetched listing has a record
\* whose _id is id it returns such a record of the listing, and otherwise (no such
\* record, a failed request, a body that is no array) it returns null, which the
\* resource renders as the not-found document; it never returns a record whose
\* _id differs from id.
C21_ExactIdOrNull ==
  (Done("resource", "event-details") /\ call.args.id.type = "string") =>
    LET id == call.args.id.value
        uri == "blockza://event/" \o id
        L == IF EventsListed THEN outs[1].body.items ELSE <<>>
    IN /\ Len(requests) = 1
       /\ requests[1] = [endpoint |-> "events", params |-> <<>>, query |-> <<>>]
       /\ result.state = "fulfilled"
       /\ IF \E i \in 1..Len(L) : L[i]._id = id
          THEN \E i \in 1..Len(L) : L[i]._id = id /\ result.value = Document(uri, L[i])
          ELSE result.value = ErrorDocument(uri, "Event not found: " \o id)

\* the id is the _id of the last record of a longer listing, not of the first,
\* and that last record is the document returned
C21_Witness ==
  /\ Done("resource", "event-details")
  /\ call.args.id.type = "string"
  /\ EventsListed
  /\ Len(outs[1].body.items) >= 2
  /\ outs[1].body.items[1]._id # call.args.id.value
  /\ outs[1].body.items[Len(outs[1].body.items)]._id = call.args.id.value
  /\ result.value.contents[1].text = Json(outs[1].body.items[Len(outs[1].body.items)])

\* C22: with several invocations in flight, whatever the order in which their
\* requests settle, the promise of every invocation that has started is the one
\* its handler yields when run alone on the outcomes delivered to that
\* invocation and the instant of its last resumption; and the response objects
\* an invocation reads hold what was delivered to it, written by nobody but
\* itself (its own in-place sort, once it has run to its end).
C22_InvocationsIndependent ==
  \A i \in Invocations :
    frames[i].pc # "idle" =>
      /\ frames[i].result = Run(frames[i].call, frames[i].outs, frames[i].at)
      /\ bodies[i] = IF frames[i].pc = "done"
                     THEN written(frames[i].call, frames[i].outs)
                     ELSE frames[i].outs

\* get_events_stats is suspended on its second request, its first having settled
\* at one instant, while compare_companies, suspended together with it, was
\* resumed at a later instant on a listing it has sorted in place
C22_Witness ==
  \E i, j \in Invocations :
    /\ frames[i].call.name = "get_events_stats"
    /\ frames[i].pc = "awaiting"
    /\ Len(frames[i].outs) = 1
    /\ frames[j].call.name = "compare_companies"
    /\ frames[j].pc = "done"
    /\ frames[j].at > frames[i].at
    /\ bodies[j] # frames[j].outs

\* the handler returned a value: a tool result, a document or a message sequence
WellFormedResponse ==
  /\ result.state = "fulfilled"
  /\ Has(result, "value")
  /\ \/ call.kind = "tool" /\ Has(result.value, "content")
     \/ call.kind = "resource" /\ Has(result.value, "contents")
     \/ call.kind = "prompt" /\ Has(result.value, "messages")

\* C23, what it says of the response: whenever a handler has run to its end,
\* whatever its call and however its requests settled, what the host is handed
\* is a well-formed response (a result, a document or a message sequence that
\* the handler returned), never an error the handler threw.
C23_ResponseWellFormed == pc = "done" => WellFormedResponse

\* the resources registered on the server
ResourceNames ==
  {"companies", "company-profile", "categories", "events", "event-details",
   "upcoming-events", "event-categories"}

\* the one document of a resource result, and whether it is {error: message};
\* asked of a document that is an object or an empty listing
DocumentOf(r) == r.contents[1].text.json
IsErrorForm(doc) == DOMAIN doc = {"error"}

EmptyDirectory == DirectoryListed /\ outs[1].body.props.data = <<>>
EmptyEvents == EventsListed /\ outs[1].body.items = <<>>

\* C25: a zero-result outcome is a normal response: on an empty successful
\* upstream listing search_companies, get_companies_by_category, search_events,
\* get_events_by_category, get_upcoming_events and get_events_by_location
\* return, without error flag, the empty data block followed by a sentence that
\* says 0 records were found; get_upcoming_events does so too when the listing
\* holds no event that starts later than now; and get_team_members, for a
\* company that is found and has no team members, returns without error flag the
\* sentence that no team members were found.
C25_ZeroResultIsNormal ==
  /\ (Done("tool", "search_companies") /\ EmptyDirectory) =>
       result = Fulfilled(DataResult("COMPANIES", <<>>,
                  "Found 0 companies matching your search criteria."))
  /\ (Done("tool", "get_companies_by_category") /\ EmptyDirectory) =>
       result = Fulfilled(DataResult("COMPANIES", <<>>,
                  "Found 0 companies in category \"" \o call.args.category \o "\"."))
  /\ (Done("tool", "search_events") /\ EmptyEvents) =>
       result = Fulfilled(DataResult("EVENTS", <<>>,
                  "Found 0 events matching your search criteria."))
  /\ (Done("tool", "get_events_by_category") /\ EmptyEvents) =>
       result = Fulfilled(DataResult("EVENTS", <<>>,
                  "Found 0 events in category \"" \o call.args.category \o "\"."))
  /\ (Done("tool", "get_upcoming_events") /\ EventsListed
        /\ LaterCount(outs[1].body.items, now) = 0) =>
       result = Fulfilled(DataResult("EVENTS", <<>>, "Found 0 upcoming events."))
  /\ (Done("tool", "get_events_by_location") /\ EmptyEvents) =>
       /\ result.state = "fulfilled"
       /\ ~Flagged(result.value)
       /\ TextOf(result.value)[2] = Json(<<>>)
       /\ StartsWith(TextOf(result.value)[3].lit, "\nEVENTS_DATA_END\n\nFound 0 events in ")
  /\ (Done("tool", "get_team_members") /\ DirectoryListed
        /\ Len(outs[1].body.props.data) > 0
        /\ LET company == exactOrFirst(outs[1].body.props.data, call.args.company_slug)
           IN Has(company, "teamMembers") /\ company.teamMembers = <<>>) =>
       /\ result.state = "fulfilled"
       /\ ~Flagged(result.value)
       /\ StartsWith(TextOf(result.value)[1].lit, "No team members found for ")

\* get_upcoming_events on a listing all of whose events have started reports 0
\* upcoming events without error flag
C25_Witness ==
  /\ Done("tool", "get_upcoming_events")
  /\ EventsListed
  /\ Len(outs[1].body.items) >= 2
  /\ LaterCount(outs[1].body.items, now) = 0
  /\ ~Flagged(result.value)
  /\ TextOf(result.value)[3].lit = "\nEVENTS_DATA_END\n\nFound 0 upcoming events."

\* C26 as stated: the records get_upcoming_events emits are in non-decreasing
\* order of eventStartDate, whatever the order of the upstream listing, and with
\* a limit n > 0 no upcoming event left out starts earlier than an emitted one.
C26_UpcomingSortedByDate ==
  (Done("tool", "get_upcoming_events") /\ EventsListed /\ result.state = "fulfilled"
     /\ ~Flagged(result.value)) =>
    LET L == outs[1].body.items
        R == TextOf(result.value)[2].json
        start(text) == DateOf(text).time
        left == { l \in 1..Len(L) : /\ DateOf(L[l].eventStartDate).valid
                                    /\ start(L[l].eventStartDate) > now
                                    /\ \A i \in 1..Len(R) : R[i].id # L[l]._id }
    IN /\ \A i, j \in 1..Len(R) :
            i < j => start(R[i].eventStartDate) <= start(R[j].eventStartDate)
       /\ (Has(call.args, "limit") /\ call.args.limit > 0) =>
            \A i \in 1..Len(R), l \in left :
              start(R[i].eventStartDate) <= start(L[l].eventStartDate)

\* C29 as stated: every response of get_events_stats that reports counts has
\* 0 <= upcoming_events <= total_events and past_events >= 0, whatever the two
\* requests of the invocation were answered with.
C29_CountsConsistent ==
  (Done("tool", "get_events_stats") /\ result.state = "fulfilled"
     /\ ~Flagged(result.value)) =>
    LET stats == TextOf(result.value)[1].json
    IN /\ 0 <= stats.upcoming_events
       /\ stats.upcoming_events <= stats.total_events
       /\ stats.past_events >= 0

\* C30 as stated: when the listing fetched for the category holds at least one
\* company, compare_companies embeds at least one company, whatever limit text
\* the caller supplies ("0", the empty string and non-numeric text included), and
\* does not answer with the 'No companies found in category' guidance.
C30_FallbackOnlyWhenEmpty ==
  (Done("prompt", "compare_companies") /\ DirectoryListed
     /\ Len(outs[1].body.props.data) >= 1 /\ result.state = "fulfilled") =>
    LET text == result.value.messages[1].content.text
    IN /\ Len(text) = 3
       /\ Len(Embedded(text)) >= 1
       /\ ~StartsWith(text[1].lit, "No companies found in category")


---------------------------------------------------------------------------
(* The session registry of the HTTP mode, under Transport                  *)

\* transport number T has initialised its session and has not closed
Live(T) == sessions[T].initialized /\ ~sessions[T].closed

\* C27: the keys of transports are exactly the session ids of the transports
\* that initialised a session and have not closed since; each key is mapped
\* to the transport whose session id it is; the id of a closed transport is
\* no key
C27_RegistryIsLiveSessions ==
  /\ \A sid \in SessionKeys :
       /\ transports[sid] # 0 <=>
            \E T \in 1..Len(sessions) : Live(T) /\ sessions[T].sessionId = sid
       /\ transports[sid] # 0 =>
            /\ transports[sid] \in 1..Len(sessions)
            /\ sessions[transports[sid]].sessionId = sid
  /\ \A T \in 1..Len(sessions) :
       sessions[T].closed /\ sessions[T].sessionId # undefined =>
         transports[sessions[T].sessionId] = 0

\* one session was initialised and then closed, and its id is no key any
\* more, while another session is registered under its own id
C27_Witness ==
  \E T, U \in 1..Len(sessions) :
    /\ sessions[T].initialized /\ sessions[T].closed
    /\ transports[sessions[T].sessionId] = 0
    /\ Live(U) /\ transports[sessions[U].sessionId] = U

\* C28: a request that carries a session id that is no key of transports, or
\* that carries no session id and is no initialization POST, is answered with
\* 400, creates no transport, connects nothing and leaves transports as it
\* was; a transport is created only for an initialization POST without a
\* session id
C28_UnroutableIs400 ==
  reply.status # 0 =>
    /\ (\/ reply.session # undefined /\ ~reply.keyed
        \/ reply.session = undefined /\ ~reply.initialization) =>
         /\ reply.status = 400
         /\ ~reply.created /\ ~reply.connected /\ ~reply.changed
    /\ reply.created => reply.initialization /\ reply.session = undefined

====
